---- MODULE Spec2Model ----
(***************************************************************************)
(* kinect-rtsp: demand-driven capture-to-publish pipeline.                 *)
(*                                                                         *)
(* One capture thread and one publish thread per modality (color,          *)
(* infrared, audio), joined by a bounded ring buffer (ringbuf::HeapRb),    *)
(* gated by the per-mount subscriber counters that the RTSP media          *)
(* callbacks of RtspPublisher::start maintain.                             *)
(*                                                                         *)
(* The threads of one pipeline share nothing with the other pipelines but  *)
(* the two subscriber counters and the appsrc handles, so each             *)
(* specification below schedules the part of the program its properties    *)
(* are about: every behaviour of a specification is a behaviour of the     *)
(* program in which the remaining threads have not been scheduled yet.     *)
(***************************************************************************)
EXTENDS Integers, Sequences, FiniteSets, TLC

\* ------------------------------------------------------------------------
\* Names
\* ------------------------------------------------------------------------
Modalities == {"color", "infrared", "audio"}

\* The two RTSP mount points, /color and /infrared.
Streams == {"color", "infrared"}

\* The four shared appsrc handles of RtspPublisher.
Handles == {"color_src", "color_audio_src", "infra_src", "infra_audio_src"}

VideoSrc(s) == IF s = "color" THEN "color_src" ELSE "infra_src"

AudioSrc(s) == IF s = "color" THEN "color_audio_src" ELSE "infra_audio_src"

MountOf(h) == IF h \in {"color_src", "color_audio_src"} THEN "color" ELSE "infrared"

\* ------------------------------------------------------------------------
\* Program constants
\* ------------------------------------------------------------------------
ColorCapacity == 16

InfraCapacity == 32

AudioCapacity == 32

Capacity(m) ==
    IF m = "color" THEN ColorCapacity
    ELSE IF m = "infrared" THEN InfraCapacity
    ELSE AudioCapacity

\* `for _ in 0..10` in start_kinect_capture.
WaitRounds == 10

\* ------------------------------------------------------------------------
\* Bounds of the model
\* ------------------------------------------------------------------------
\* Client sessions per mount in the specifications of the session callbacks.
MaxSessions == 2

\* Frames the sensor delivers beyond the capacity of the channel in the
\* specification of the frame channel.
ExtraFrames == 2

\* Session ends without a matching start in the specification of unmatched
\* session ends.
MaxUnmatched == 2

\* Frames the sensor delivers per modality in the other specifications.
FewFrames == 1

\* Modification times the configuration file can carry.
MaxMtime == 2

\* Frames the microphone delivers in the specification of the audio
\* accumulator.
AudioFrames == 2

\* Frames waiting in the infrared channel in the specification of the
\* infrared publish thread.
IrFrames == 2

\* Color frames waiting in the channel at the start of the specification of
\* the color publish thread.
ColorFrames == 2

\* The f32 samples given to the conversion are -SampleRange .. SampleRange
\* units of 1/256.
SampleRange == 300

VARIABLES
    \* start_kinect_capture / main
    mainPc,        \* position of the main thread
    waitCount,     \* iterations of the availability wait loop done
    available,     \* result of the last Kinect::is_available() call
    serverUp,      \* RtspPublisher::start has returned Ok
    spawned,       \* modalities whose two threads have been spawned
    \* RtspPublisher
    clientCount,   \* [Streams -> AtomicUsize], see UsizeIsZero
    src,           \* [Handles -> 0 (None) or the session whose appsrc is held]
    holder,        \* [Handles -> "free" or the modality whose publish thread holds the mutex]
    \* RTSP session layer (gstreamer-rtsp-server), the environment
    clients,       \* [Streams -> sessions that will connect in this run]
    sess,          \* [Streams -> [1..MaxSessions -> position of the session's callbacks]]
    \* capture threads
    capPc,         \* [Modalities -> position]
    device,        \* [Modalities -> the capture object (device resource) is held]
    iter,          \* [Modalities -> the frame iterator is held]
    obs,           \* [Modalities -> [Streams -> what the gate check of this iteration saw]]
    frame,         \* [Modalities -> frame returned by iter.next() and not yet pushed, 0 = none]
    supply,        \* [Modalities -> frames the sensor delivers in this run]
    produced,      \* [Modalities -> frames the iterator has returned so far]
    \* frame channels
    queue,         \* [Modalities -> sequence of frame numbers in the ring buffer]
    dropped,       \* [Modalities -> sequence of frame numbers rejected by try_push]
    \* publish threads
    pubPc,         \* [Modalities -> position]
    pubFrame,      \* [Modalities -> frame being published, 0 = none]
    popped,        \* [Modalities -> sequence of frame numbers returned by try_pop]
    \* the configuration file and InfraredConfigManager
    file,          \* the file at config_path: [exists, mtime, content]
    mgr,           \* InfraredConfigManager::new: "none", "stat", "ready", "rejected", "unreadable"
    config,        \* manager.config (under its RwLock)
    last_modified, \* manager.last_modified (Some(t) held as t)
    monPc,         \* position of the thread of spawn_config_monitor
    monSeen,       \* check_and_reload: current_modified
    monNew,        \* check_and_reload: new_config
    monOutcome,    \* what the last check_and_reload returned
    \* infrared_frame_publish
    current_config, \* the configuration the thread adopted last
    lut,           \* the lookup table the thread holds, on IrSamples
    rgba_data,     \* the reused output buffer
    \* audio_frame_publish
    acc,           \* audio_frame_buffer: the samples not yet emitted
    chunk,         \* the chunk pop_frame returned and send_audio_f32 is sending
    appended,      \* samples appended to audio_frame_buffer so far
    emitted,       \* the chunks pop_frame has returned so far
    \* payloads
    inputs,        \* [Modalities -> payloads the sensor may deliver in this run]
    payload,       \* [Modalities -> payload of each frame delivered so far]
    \* generate_lut and the sample conversion of send_audio_f32 on their own
    lutCfg,        \* the two configurations generate_lut is running on
    lutIdx,        \* infrared_point of the loop of generate_lut
    lutOut,        \* the entry written last, for each of the two
    lutPrev,       \* the entry written before it
    s16In,         \* the f32 sample given to the conversion
    s16Out         \* its result, "none" before the conversion

vars == <<mainPc, waitCount, available, serverUp, spawned,
          clientCount, src, holder, clients, sess,
          capPc, device, iter, obs, frame, supply, produced,
          queue, dropped, pubPc, pubFrame, popped,
          file, mgr, config, last_modified, monPc, monSeen, monNew, monOutcome,
          current_config, lut, rgba_data, acc, chunk, appended, emitted,
          inputs, payload, lutCfg, lutIdx, lutOut, lutPrev, s16In, s16Out>>

mainVars == <<mainPc, waitCount, available, serverUp, spawned>>

gateVars == <<clientCount, clients, sess>>

capVars == <<capPc, device, iter, obs, frame, supply, produced>>

chanVars == <<queue, dropped>>

pubVars == <<pubPc, pubFrame, popped>>

cfgVars == <<file, mgr, config, last_modified, monPc, monSeen, monNew, monOutcome>>

lutVars == <<current_config, lut, rgba_data>>

accVars == <<acc, chunk, appended, emitted>>

inVars == <<inputs, payload>>

genVars == <<lutCfg, lutIdx, lutOut, lutPrev, s16In, s16Out>>

\* What the session callbacks, the capture threads and main leave alone.
extVars == <<cfgVars, lutVars, accVars, inVars, genVars>>

\* ------------------------------------------------------------------------
\* AtomicUsize
\* ------------------------------------------------------------------------
\* A usize is 64 bits wide on the target (x86_64 Windows).  The counter is
\* held as the representative r of its value modulo 2^64 with the least
\* absolute value: r >= 0 stands for r, r < 0 stands for 2^64 + r, so -1 is
\* usize::MAX.  Adding and subtracting one on representatives is exact as
\* long as |r| < 2^63, which the session bound guarantees.
UsizeIsZero(r) == r = 0

\* fetch_add(1, SeqCst): wrapping add.
FetchAdd(r) == r + 1

\* A decrement that stops one short of zero.
FetchSubStuck(r) == IF r > 1 THEN r - 1 ELSE r

\* fetch_sub(1, SeqCst): wrapping subtract, no clamp at zero.
FetchSub(r) == r - 1

\* `count.load(SeqCst) > 0` on an unsigned value.
CountPositive(r) == ~UsizeIsZero(r)

\* RtspPublisher::is_color_active / is_infra_active
is_active(s) == CountPositive(clientCount[s])

\* ------------------------------------------------------------------------
\* RTSP media callbacks registered by RtspPublisher::start
\* ------------------------------------------------------------------------
\* Sessions of a mount are numbered in the order media_configure fires.
\* Positions of a session: "none" (not connected yet), "cfg_video" and
\* "cfg_audio" (inside media_configure, counter incremented, about to store
\* the video / audio appsrc), "live", "unprep_video" and "unprep_audio"
\* (inside the unprepared closure, counter decremented, about to clear the
\* video / audio handle), "ended".
SessionIds == 1..MaxSessions

StartedNotEnded(s) == {k \in SessionIds : sess[s][k] \in {"cfg_video", "cfg_audio", "live"}}

\* media_configure, first statement: count.fetch_add(1, SeqCst).
MediaConfigure(s, k) ==
    /\ serverUp
    /\ k <= clients[s]
    /\ sess[s][k] = "none"
    /\ \A j \in SessionIds : j < k => sess[s][j] # "none"
    /\ clientCount' = [clientCount EXCEPT ![s] = FetchAdd(clientCount[s])]
    /\ sess' = [sess EXCEPT ![s][k] = "cfg_video"]
    /\ UNCHANGED <<extVars, mainVars, src, holder, clients, capVars, chanVars, pubVars>>

\* media_configure: *color_src_clone.lock().unwrap() = Some(appsrc).
ConfigureVideo(s, k) ==
    /\ sess[s][k] = "cfg_video"
    /\ holder[VideoSrc(s)] = "free"
    /\ src' = [src EXCEPT ![VideoSrc(s)] = k]
    /\ sess' = [sess EXCEPT ![s][k] = "cfg_audio"]
    /\ UNCHANGED <<extVars, mainVars, clientCount, holder, clients, capVars, chanVars, pubVars>>

\* media_configure: *audio_src_clone.lock().unwrap() = Some(appsrc).
ConfigureAudio(s, k) ==
    /\ sess[s][k] = "cfg_audio"
    /\ holder[AudioSrc(s)] = "free"
    /\ src' = [src EXCEPT ![AudioSrc(s)] = k]
    /\ sess' = [sess EXCEPT ![s][k] = "live"]
    /\ UNCHANGED <<extVars, mainVars, clientCount, holder, clients, capVars, chanVars, pubVars>>

\* unprepared closure, first statement: count.fetch_sub(1, SeqCst).
Unprepared(s, k) ==
    /\ sess[s][k] = "live"
    /\ clientCount' = [clientCount EXCEPT ![s] = FetchSub(clientCount[s])]
    /\ sess' = [sess EXCEPT ![s][k] = "unprep_video"]
    /\ UNCHANGED <<extVars, mainVars, src, holder, clients, capVars, chanVars, pubVars>>

\* unprepared closure: *color_src_for_unprepare.lock().unwrap() = None.
UnprepareVideo(s, k) ==
    /\ sess[s][k] = "unprep_video"
    /\ holder[VideoSrc(s)] = "free"
    /\ src' = [src EXCEPT ![VideoSrc(s)] = 0]
    /\ sess' = [sess EXCEPT ![s][k] = "unprep_audio"]
    /\ UNCHANGED <<extVars, mainVars, clientCount, holder, clients, capVars, chanVars, pubVars>>

\* unprepared closure: *audio_src_for_unprepare.lock().unwrap() = None.
UnprepareAudio(s, k) ==
    /\ sess[s][k] = "unprep_audio"
    /\ holder[AudioSrc(s)] = "free"
    /\ src' = [src EXCEPT ![AudioSrc(s)] = 0]
    /\ sess' = [sess EXCEPT ![s][k] = "ended"]
    /\ UNCHANGED <<extVars, mainVars, clientCount, holder, clients, capVars, chanVars, pubVars>>

\* The unprepared closure of a session that has already ended is signalled
\* once more: a session end with no matching session start.
UnpreparedAgain(s, k) ==
    /\ sess[s][k] = "ended"
    /\ clientCount[s] > -MaxUnmatched
    /\ clientCount' = [clientCount EXCEPT ![s] = FetchSub(clientCount[s])]
    /\ sess' = [sess EXCEPT ![s][k] = "unprep_video"]
    /\ UNCHANGED <<extVars, mainVars, src, holder, clients, capVars, chanVars, pubVars>>

SessionStep ==
    \E s \in Streams : \E k \in SessionIds :
        \/ MediaConfigure(s, k)
        \/ ConfigureVideo(s, k)
        \/ ConfigureAudio(s, k)
        \/ Unprepared(s, k)
        \/ UnprepareVideo(s, k)
        \/ UnprepareAudio(s, k)

\* ------------------------------------------------------------------------
\* Capture threads: color_frame_capture, infrared_frame_capture,
\* audio_frame_capture
\* ------------------------------------------------------------------------
\* Positions: "unspawned", "open" (about to create the capture object),
\* "gate" (top of the loop, about to call the gate), "gate2" (inside
\* is_capture_active, color found inactive, about to load the infrared
\* counter), "release" (gate found inactive and the iterator dropped, about
\* to take the capture object), "idle" (sleeping after the gate was found
\* inactive), "mkiter"
\* (about to create the iterator), "poll" (about to call iter.next()),
\* "push" (holding a frame, about to call try_push), "warn" (in the
\* Some(Err(e)) arm, about to log the error), "nap" (sleeping 5 ms after
\* None), "exited" (the function returned Err).
Running(m) == m \in spawned /\ mainPc # "exited"

\* The counter the gate of a capture loop loads first.
FirstGate(m) == IF m = "infrared" THEN "infrared" ELSE "color"

NotLoaded == [s \in Streams |-> "unread"]

\* What a gate check saw when it loaded a counter.
Seen(v) == IF CountPositive(v) THEN "positive" ELSE "zero"

\* An active branch without `if iter.is_none()`: the iterator is created on
\* every iteration.
AfterActiveAgain(m) == IF device[m] THEN "mkiter" ELSE "open"

\* Where an iteration goes once the gate is found active (`if iter.is_none()`,
\* `if color_capture.is_none()`).
AfterActive(m) ==
    IF iter[m] THEN "poll"
    ELSE IF device[m] THEN "mkiter"
    ELSE "open"

\* The capture object after the inactive branch of the loop: color and audio
\* `take()` it, infrared owns it for the whole function.
DeviceAfterRelease(m, d) == IF m = "infrared" THEN d ELSE FALSE

\* Where the inactive branch goes after `iter = None`: color and audio to
\* `color_capture.take()` / `audio_capture.take()`, infrared to its sleep.
AfterIterDrop(m) == IF m = "infrared" THEN "idle" ELSE "release"

\* First statement of the thread (infrared: InfraredFrameCapture::new()
\* happens before the loop; color and audio enter the loop).
FirstPc(m) == IF m = "infrared" THEN "open" ELSE "gate"

\* A capture function that is called again after it returned Err: the gate
\* check also runs from "exited".
GateCheckRestarting(m) ==
    /\ Running(m)
    /\ capPc[m] \in {"gate", "exited"}
    /\ LET s == FirstGate(m)
           v == clientCount[s]
       IN /\ obs' = [obs EXCEPT ![m] = [NotLoaded EXCEPT ![s] = Seen(v)]]
          /\ IF CountPositive(v)
             THEN /\ capPc' = [capPc EXCEPT ![m] = AfterActive(m)]
                  /\ UNCHANGED <<device, iter>>
             ELSE IF m = "audio"
             THEN /\ capPc' = [capPc EXCEPT ![m] = "gate2"]
                  /\ UNCHANGED <<device, iter>>
             ELSE /\ capPc' = [capPc EXCEPT ![m] = AfterIterDrop(m)]
                  /\ iter' = [iter EXCEPT ![m] = FALSE]
                  /\ UNCHANGED device
    /\ UNCHANGED <<extVars, mainVars, clientCount, src, holder, clients, sess,
                   frame, supply, produced, chanVars, pubVars>>

\* An inactive branch that takes the capture object first and leaves the
\* iterator for later.
GateCheckDeviceFirst(m) ==
    /\ Running(m)
    /\ capPc[m] = "gate"
    /\ LET s == FirstGate(m)
           v == clientCount[s]
       IN /\ obs' = [obs EXCEPT ![m] = [NotLoaded EXCEPT ![s] = Seen(v)]]
          /\ IF CountPositive(v)
             THEN /\ capPc' = [capPc EXCEPT ![m] = AfterActive(m)]
                  /\ UNCHANGED <<device, iter>>
             ELSE IF m = "audio"
             THEN /\ capPc' = [capPc EXCEPT ![m] = "gate2"]
                  /\ UNCHANGED <<device, iter>>
             ELSE /\ capPc' = [capPc EXCEPT ![m] = AfterIterDrop(m)]
                  /\ device' = [device EXCEPT ![m] = DeviceAfterRelease(m, device[m])]
                  /\ UNCHANGED iter
    /\ UNCHANGED <<extVars, mainVars, clientCount, src, holder, clients, sess,
                   frame, supply, produced, chanVars, pubVars>>

\* `if !rtsp.is_color_active()` / is_infra_active(), and the first load of
\* is_capture_active() (`is_color_active() ||`); in the inactive branch
\* `if iter.is_some() { iter = None; .. }`.
GateCheck(m) ==
    /\ Running(m)
    /\ capPc[m] = "gate"
    /\ LET s == FirstGate(m)
           v == clientCount[s]
       IN /\ obs' = [obs EXCEPT ![m] = [NotLoaded EXCEPT ![s] = Seen(v)]]
          /\ IF CountPositive(v)
             THEN /\ capPc' = [capPc EXCEPT ![m] = AfterActive(m)]
                  /\ UNCHANGED <<device, iter>>
             ELSE IF m = "audio"
             THEN /\ capPc' = [capPc EXCEPT ![m] = "gate2"]
                  /\ UNCHANGED <<device, iter>>
             ELSE /\ capPc' = [capPc EXCEPT ![m] = AfterIterDrop(m)]
                  /\ iter' = [iter EXCEPT ![m] = FALSE]
                  /\ UNCHANGED device
    /\ UNCHANGED <<extVars, mainVars, clientCount, src, holder, clients, sess,
                   frame, supply, produced, chanVars, pubVars>>

\* is_capture_active() without its second operand: inactive as soon as the
\* color gate is.
GateCheckColorOnly(m) ==
    /\ Running(m)
    /\ capPc[m] = "gate2"
    /\ capPc' = [capPc EXCEPT ![m] = AfterIterDrop(m)]
    /\ iter' = [iter EXCEPT ![m] = FALSE]
    /\ UNCHANGED device
    /\ UNCHANGED <<extVars, mainVars, clientCount, src, holder, clients, sess,
                   obs, frame, supply, produced, chanVars, pubVars>>

\* Second load of is_capture_active(): `|| self.is_infra_active()`.
GateCheckInfra(m) ==
    /\ Running(m)
    /\ capPc[m] = "gate2"
    /\ LET v == clientCount["infrared"]
       IN /\ obs' = [obs EXCEPT ![m]["infrared"] = Seen(v)]
          /\ IF CountPositive(v)
             THEN /\ capPc' = [capPc EXCEPT ![m] = AfterActive(m)]
                  /\ UNCHANGED <<device, iter>>
             ELSE /\ capPc' = [capPc EXCEPT ![m] = AfterIterDrop(m)]
                  /\ iter' = [iter EXCEPT ![m] = FALSE]
                  /\ UNCHANGED device
    /\ UNCHANGED <<extVars, mainVars, clientCount, src, holder, clients, sess,
                   frame, supply, produced, chanVars, pubVars>>

\* `if color_capture.take().is_some() { log }` / `audio_capture.take()`: the
\* capture object is dropped, after the iterator.
ReleaseDevice(m) ==
    /\ Running(m)
    /\ capPc[m] = "release"
    /\ device' = [device EXCEPT ![m] = DeviceAfterRelease(m, device[m])]
    /\ capPc' = [capPc EXCEPT ![m] = "idle"]
    /\ UNCHANGED <<extVars, mainVars, clientCount, src, holder, clients, sess,
                   iter, obs, frame, supply, produced, chanVars, pubVars>>

\* An inactive branch without its `continue`: after the sleep the iteration
\* goes on to acquire and poll.
IdleWakeResume(m) ==
    /\ Running(m)
    /\ capPc[m] = "idle"
    /\ capPc' = [capPc EXCEPT ![m] = AfterActive(m)]
    /\ UNCHANGED <<extVars, mainVars, clientCount, src, holder, clients, sess,
                   device, iter, obs, frame, supply, produced, chanVars, pubVars>>

\* std::thread::sleep(30 ms / 100 ms) in the inactive branch, then `continue`.
IdleWake(m) ==
    /\ Running(m)
    /\ capPc[m] = "idle"
    /\ capPc' = [capPc EXCEPT ![m] = "gate"]
    /\ UNCHANGED <<extVars, mainVars, clientCount, src, holder, clients, sess,
                   device, iter, obs, frame, supply, produced, chanVars, pubVars>>

\* Where the thread goes once the capture object exists.
AfterOpen(m) == IF m = "infrared" THEN "gate" ELSE "mkiter"

\* Device creation that unwraps its result: a failure takes the process down.
OpenDeviceOrAbort(m) ==
    /\ Running(m)
    /\ capPc[m] = "open"
    /\ \E ok \in BOOLEAN :
        IF ok
        THEN /\ device' = [device EXCEPT ![m] = TRUE]
             /\ capPc' = [capPc EXCEPT ![m] = AfterOpen(m)]
             /\ UNCHANGED <<iter, mainPc>>
        ELSE /\ device' = [device EXCEPT ![m] = FALSE]
             /\ iter' = [iter EXCEPT ![m] = FALSE]
             /\ capPc' = [capPc EXCEPT ![m] = "exited"]
             /\ mainPc' = "exited"
    /\ UNCHANGED <<extVars, waitCount, available, serverUp, spawned, clientCount, src, holder,
                   clients, sess, obs, frame, supply, produced, chanVars, pubVars>>

\* ColorFrameCapture::new_with_format(..)?, InfraredFrameCapture::new()?,
\* AudioFrameCapture::new()?
OpenDevice(m) ==
    /\ Running(m)
    /\ capPc[m] = "open"
    /\ \E ok \in BOOLEAN :
        IF ok
        THEN /\ device' = [device EXCEPT ![m] = TRUE]
             /\ capPc' = [capPc EXCEPT ![m] = AfterOpen(m)]
             /\ UNCHANGED iter
        ELSE /\ device' = [device EXCEPT ![m] = FALSE]
             /\ iter' = [iter EXCEPT ![m] = FALSE]
             /\ capPc' = [capPc EXCEPT ![m] = "exited"]
    /\ UNCHANGED <<extVars, mainVars, clientCount, src, holder, clients, sess,
                   obs, frame, supply, produced, chanVars, pubVars>>

\* capture.iter()?  On Err the function returns and its locals are dropped.
MakeIter(m) ==
    /\ Running(m)
    /\ capPc[m] = "mkiter"
    /\ \E ok \in BOOLEAN :
        IF ok
        THEN /\ iter' = [iter EXCEPT ![m] = TRUE]
             /\ capPc' = [capPc EXCEPT ![m] = "poll"]
             /\ UNCHANGED device
        ELSE /\ device' = [device EXCEPT ![m] = FALSE]
             /\ iter' = [iter EXCEPT ![m] = FALSE]
             /\ capPc' = [capPc EXCEPT ![m] = "exited"]
    /\ UNCHANGED <<extVars, mainVars, clientCount, src, holder, clients, sess,
                   obs, frame, supply, produced, chanVars, pubVars>>

\* What iter.next() can return: None, Some(Err(e)), and Some(Ok(data)) while
\* the sensor has frames left in this run.
PollOutcomes(m) ==
    {"none", "err"} \cup (IF produced[m] < supply[m] THEN {"frame"} ELSE {})

\* A Some(Err(e)) arm that returns the error: `Some(Err(e)) => return Err(e)`.
AfterPollFatal(out) ==
    IF out = "frame" THEN "push"
    ELSE IF out = "err" THEN "exited"
    ELSE "nap"

\* The arm of `match iter.next()` the thread enters.
AfterPoll(out) ==
    IF out = "frame" THEN "push"
    ELSE IF out = "err" THEN "warn"
    ELSE "nap"

\* `match iter.next()`
Poll(m) ==
    /\ Running(m)
    /\ capPc[m] = "poll"
    /\ \E out \in PollOutcomes(m) :
        /\ capPc' = [capPc EXCEPT ![m] = AfterPoll(out)]
        /\ produced' = [produced EXCEPT ![m] = IF out = "frame" THEN @ + 1 ELSE @]
        /\ frame' = [frame EXCEPT ![m] = IF out = "frame" THEN produced[m] + 1 ELSE 0]
        /\ IF out = "frame"
           THEN \E p \in inputs[m] : payload' = [payload EXCEPT ![m] = Append(@, p)]
           ELSE UNCHANGED payload
    /\ UNCHANGED <<mainVars, clientCount, src, holder, clients, sess,
                   device, iter, obs, supply, chanVars, pubVars,
                   cfgVars, lutVars, accVars, inputs, genVars>>

\* `Some(Err(e)) => { log::warn!(..) }`: the arm ends and the loop takes its
\* next iteration.
Warned(m) ==
    /\ Running(m)
    /\ capPc[m] = "warn"
    /\ capPc' = [capPc EXCEPT ![m] = "gate"]
    /\ UNCHANGED <<extVars, mainVars, clientCount, src, holder, clients, sess,
                   device, iter, obs, frame, supply, produced, chanVars, pubVars>>

\* std::thread::sleep(5 ms) in the None arm.
NapWake(m) ==
    /\ Running(m)
    /\ capPc[m] = "nap"
    /\ capPc' = [capPc EXCEPT ![m] = "gate"]
    /\ UNCHANGED <<extVars, mainVars, clientCount, src, holder, clients, sess,
                   device, iter, obs, frame, supply, produced, chanVars, pubVars>>

\* ------------------------------------------------------------------------
\* Frame channel: ringbuf::HeapRb<T>::new(N).split()
\* ------------------------------------------------------------------------
\* Producer::try_push fails when the buffer is full.
IsFull(q, cap) == Len(q) >= cap

\* try_push replaced by an overwriting push that evicts the oldest element.
TryPushOverwrite(q, f, cap) == IF IsFull(q, cap) THEN Append(Tail(q), f) ELSE Append(q, f)

\* try_push without the occupancy check.
TryPushUnbounded(q, f, cap) == Append(q, f)

\* The buffer after try_push(f): unchanged when full, f appended otherwise.
TryPush(q, f, cap) == IF IsFull(q, cap) THEN q ELSE Append(q, f)

\* `if raw_tx.try_push(data).is_err() { log "buffer full, dropping frame" }`
Push(m) ==
    /\ Running(m)
    /\ capPc[m] = "push"
    /\ queue' = [queue EXCEPT ![m] = TryPush(queue[m], frame[m], Capacity(m))]
    /\ dropped' = [dropped EXCEPT ![m] =
                      IF IsFull(queue[m], Capacity(m)) THEN Append(@, frame[m]) ELSE @]
    /\ frame' = [frame EXCEPT ![m] = 0]
    /\ capPc' = [capPc EXCEPT ![m] = "gate"]
    /\ UNCHANGED <<extVars, mainVars, clientCount, src, holder, clients, sess,
                   device, iter, obs, supply, produced, pubVars>>

\* The drops channel m has on record.  The Err branch of try_push writes a
\* log line and nothing else: neither the capture loop nor the ring buffer
\* keeps a count, so the record stays where it started.
DropCounter(m) == 0

\* try_pop taking the newest element instead of the oldest.
TryPopNewest(q) == IF q = <<>> THEN 0 ELSE q[Len(q)]

\* Consumer::try_pop: the oldest element, or None when the buffer is empty.
TryPop(q) == IF q = <<>> THEN 0 ELSE Head(q)

AfterPop(q) == IF q = <<>> THEN q ELSE Tail(q)

CaptureStep(m) ==
    \/ GateCheck(m)
    \/ ReleaseDevice(m)
    \/ IdleWake(m)
    \/ OpenDevice(m)
    \/ MakeIter(m)
    \/ Poll(m)
    \/ Warned(m)
    \/ NapWake(m)
    \/ Push(m)

\* ------------------------------------------------------------------------
\* Exact arithmetic on naturals wider than the integers of the checker
\* ------------------------------------------------------------------------
\* A wide natural is the sequence of its digits in base WideBase, least
\* significant first.  generate_lut is evaluated on them exactly; the
\* rounding of the single f32 operations is not modelled.
WideBase == 1024

RECURSIVE WideOf(_)
WideOf(n) == IF n = 0 THEN <<>> ELSE <<n % WideBase>> \o WideOf(n \div WideBase)

WideDigit(x, i) == IF i <= Len(x) THEN x[i] ELSE 0

RECURSIVE WideCarry(_, _)
WideCarry(x, c) ==
    IF x = <<>> THEN WideOf(c)
    ELSE LET t == Head(x) + c
         IN  <<t % WideBase>> \o WideCarry(Tail(x), t \div WideBase)

WideAdd(x, y) ==
    LET n == IF Len(x) > Len(y) THEN Len(x) ELSE Len(y)
    IN  WideCarry([i \in 1..n |-> WideDigit(x, i) + WideDigit(y, i)], 0)

RECURSIVE WideColumn(_, _, _, _)
WideColumn(x, y, k, i) ==
    IF i > Len(x) THEN 0
    ELSE (IF k + 1 - i >= 1 /\ k + 1 - i <= Len(y) THEN x[i] * y[k + 1 - i] ELSE 0)
         + WideColumn(x, y, k, i + 1)

WideMul(x, y) ==
    IF x = <<>> \/ y = <<>> THEN <<>>
    ELSE WideCarry([k \in 1..(Len(x) + Len(y) - 1) |-> WideColumn(x, y, k, 1)], 0)

RECURSIVE WideGeqFrom(_, _, _)
WideGeqFrom(x, y, i) ==
    IF i = 0 THEN TRUE
    ELSE IF WideDigit(x, i) # WideDigit(y, i) THEN WideDigit(x, i) > WideDigit(y, i)
    ELSE WideGeqFrom(x, y, i - 1)

WideGeq(x, y) == WideGeqFrom(x, y, IF Len(x) > Len(y) THEN Len(x) ELSE Len(y))

\* x divided by WideBase^d, rounded down.
WideShift(x, d) == IF Len(x) <= d THEN <<>> ELSE SubSeq(x, d + 1, Len(x))

RECURSIVE WideToInt(_)
WideToInt(x) == IF x = <<>> THEN 0 ELSE Head(x) + WideBase * WideToInt(Tail(x))

\* ------------------------------------------------------------------------
\* InfraredConfig, generate_lut, configs_equal
\* ------------------------------------------------------------------------
\* An f32 field of InfraredConfig is held as a whole number of units of
\* 2^-25: the value v stands for v / ConfigUnit.  Every value used below is
\* an f32 (a multiple of 2^-25 between 1/8 and 4, or a multiple of a larger
\* power of two), and f32::EPSILON = 2^-23 is F32Epsilon units.
ConfigUnit == 33554432

F32Epsilon == ConfigUnit \div 8388608

\* u16::MAX as f32
INFRARED_SOURCE_VALUE_MAXIMUM == 65535

\* `impl Default for InfraredConfig`: 0.25, 1.0, 3.0
Default ==
    [infrared_output_value_minimum |-> ConfigUnit \div 4,
     infrared_output_value_maximum |-> ConfigUnit,
     infrared_source_scale |-> 3 * ConfigUnit]

Abs(x) == IF x < 0 THEN -x ELSE x

\* A comparison that never reports a difference.
configs_equal_always(a, b) == TRUE

\* configs_equal: every field differs by less than f32::EPSILON.
configs_equal(a, b) ==
    /\ Abs(a.infrared_output_value_minimum - b.infrared_output_value_minimum) < F32Epsilon
    /\ Abs(a.infrared_output_value_maximum - b.infrared_output_value_maximum) < F32Epsilon
    /\ Abs(a.infrared_source_scale - b.infrared_source_scale) < F32Epsilon

\* `as u8` applied without round(): the fraction is cut off.
ToByteTruncating(scaled) ==
    IF Len(scaled) > 3 THEN 255
    ELSE IF WideToInt(scaled) \div (2 * INFRARED_SOURCE_VALUE_MAXIMUM) > 255 THEN 255
    ELSE WideToInt(scaled) \div (2 * INFRARED_SOURCE_VALUE_MAXIMUM)

\* `(x).round().clamp(0.0, 255.0) as u8` for x >= 0 given as
\* scaled / (2 * 65535): round() is the integer part of x + 1/2.
ToByte(scaled) ==
    IF Len(scaled) > 3 THEN 255
    ELSE IF (WideToInt(scaled) + INFRARED_SOURCE_VALUE_MAXIMUM)
                \div (2 * INFRARED_SOURCE_VALUE_MAXIMUM) > 255 THEN 255
    ELSE (WideToInt(scaled) + INFRARED_SOURCE_VALUE_MAXIMUM)
                \div (2 * INFRARED_SOURCE_VALUE_MAXIMUM)

\* The loop body without the upper clamp `max.min(f)`.
LutEntryUnclamped(c, infrared_point) ==
    LET span == WideMul(WideOf(INFRARED_SOURCE_VALUE_MAXIMUM), WideOf(ConfigUnit))
        fNum == WideAdd(WideMul(WideMul(WideOf(infrared_point), WideOf(c.infrared_source_scale)),
                                WideOf(ConfigUnit - c.infrared_output_value_minimum)),
                        WideMul(WideOf(c.infrared_output_value_minimum), span))
    IN  ToByte(WideShift(WideMul(WideOf(2 * 255), fNum), 5))

\* The body of the loop of generate_lut for one infrared_point, on a
\* configuration load_config accepts (0 <= min < max <= 1, scale > 0):
\*   f       = (infrared_point / 65535 * scale) * (1 - min) + min
\*           = fNum / (65535 * ConfigUnit^2)
\*   clamped = max.min(f)
\*           = clampedNum / (65535 * ConfigUnit^2)
\*   byte    = (clamped * 255).round().clamp(0, 255) as u8
\* ConfigUnit^2 is WideBase^5, so 2 * 255 * clamped is the shifted product
\* over 2 * 65535.
LutEntry(c, infrared_point) ==
    LET span == WideMul(WideOf(INFRARED_SOURCE_VALUE_MAXIMUM), WideOf(ConfigUnit))
        fNum == WideAdd(WideMul(WideMul(WideOf(infrared_point), WideOf(c.infrared_source_scale)),
                                WideOf(ConfigUnit - c.infrared_output_value_minimum)),
                        WideMul(WideOf(c.infrared_output_value_minimum), span))
        cap == WideMul(WideOf(c.infrared_output_value_maximum), span)
        clampedNum == IF WideGeq(fNum, cap) THEN cap ELSE fNum
    IN  ToByte(WideShift(WideMul(WideOf(2 * 255), clampedNum), 5))

\* Sample values the infrared frames of the model hold.
IrSamples == {0, 4369, 65535}

\* generate_lut, on the samples the frames of the model hold.
generate_lut(c) == [s \in IrSamples |-> LutEntry(c, s)]

\* ------------------------------------------------------------------------
\* The configuration file and InfraredConfigManager
\* ------------------------------------------------------------------------
\* What the file holds: JSON with the three fields, or something serde_json
\* rejects.
Config(lo, hi, scale) ==
    [infrared_output_value_minimum |-> lo,
     infrared_output_value_maximum |-> hi,
     infrared_source_scale |-> scale]

NoConfig == Config(0, 0, 0)

Json(c) == [kind |-> "json", cfg |-> c]

Garbage == [kind |-> "garbage", cfg |-> NoConfig]

NoFile == [exists |-> FALSE, mtime |-> 0, content |-> Garbage]

FileWith(t, x) == [exists |-> TRUE, mtime |-> t, content |-> x]

\* The checks of load_config on a parsed configuration (each one a bail!).
Accepted(c) ==
    /\ ~(c.infrared_output_value_minimum < 0 \/ c.infrared_output_value_minimum > ConfigUnit)
    /\ ~(c.infrared_output_value_maximum < 0 \/ c.infrared_output_value_maximum > ConfigUnit)
    /\ ~(c.infrared_output_value_minimum >= c.infrared_output_value_maximum)
    /\ ~(c.infrared_source_scale <= 0)

\* load_config without the check of the order of minimum and maximum.
load_config_unordered(f) ==
    IF ~f.exists THEN [ok |-> FALSE, io |-> TRUE, cfg |-> NoConfig]
    ELSE IF f.content.kind # "json" THEN [ok |-> FALSE, io |-> FALSE, cfg |-> NoConfig]
    ELSE IF f.content.cfg.infrared_output_value_minimum < 0
            \/ f.content.cfg.infrared_output_value_minimum > ConfigUnit
            \/ f.content.cfg.infrared_output_value_maximum < 0
            \/ f.content.cfg.infrared_output_value_maximum > ConfigUnit
            \/ f.content.cfg.infrared_source_scale <= 0
         THEN [ok |-> FALSE, io |-> FALSE, cfg |-> NoConfig]
    ELSE [ok |-> TRUE, io |-> FALSE, cfg |-> f.content.cfg]

\* load_config: read_to_string, serde_json::from_str, the range checks.
\* `io` tells a failed read from a rejected content.
load_config(f) ==
    IF ~f.exists THEN [ok |-> FALSE, io |-> TRUE, cfg |-> NoConfig]
    ELSE IF f.content.kind # "json" THEN [ok |-> FALSE, io |-> FALSE, cfg |-> NoConfig]
    ELSE IF ~Accepted(f.content.cfg) THEN [ok |-> FALSE, io |-> FALSE, cfg |-> NoConfig]
    ELSE [ok |-> TRUE, io |-> FALSE, cfg |-> f.content.cfg]

\* Everything but the manager, the monitor and the file.
progVars == <<mainVars, gateVars, src, holder, capVars, chanVars, pubVars>>

\* InfraredConfigManager::new, `let config = Self::load_config(&config_path)?`:
\* an Err is returned to the caller and no manager is built ("rejected" for
\* a content that does not parse or validate, "unreadable" for a failed
\* read).
ManagerNew ==
    /\ mgr = "none"
    /\ IF load_config(file).ok
       THEN /\ config' = load_config(file).cfg
            /\ mgr' = "stat"
       ELSE /\ mgr' = IF load_config(file).io THEN "unreadable" ELSE "rejected"
            /\ UNCHANGED config
    /\ UNCHANGED <<file, last_modified, monPc, monSeen, monNew, monOutcome,
                   progVars, lutVars, accVars, inVars, genVars>>

\* InfraredConfigManager::new,
\* `let last_modified = Self::get_file_modified_time(&config_path)?`, and the
\* struct is built.
ManagerNewStat ==
    /\ mgr = "stat"
    /\ IF file.exists
       THEN /\ last_modified' = file.mtime
            /\ mgr' = "ready"
            /\ UNCHANGED config
       ELSE /\ mgr' = "unreadable"
            /\ config' = NoConfig
            /\ UNCHANGED last_modified
    /\ UNCHANGED <<file, monPc, monSeen, monNew, monOutcome,
                   progVars, lutVars, accVars, inVars, genVars>>

\* spawn_config_monitor: the thread is spawned and starts with its sleep.
SpawnMonitor ==
    /\ mgr = "ready"
    /\ monPc = "unspawned"
    /\ monPc' = "sleep"
    /\ UNCHANGED <<file, mgr, config, last_modified, monSeen, monNew, monOutcome,
                   progVars, lutVars, accVars, inVars, genVars>>

\* check_and_reload up to `if current_modified > last`: the sleep ends,
\* get_file_modified_time()? and the comparison with last_modified, which
\* only this thread writes.
MonStat ==
    /\ monPc = "sleep"
    /\ IF ~file.exists
       THEN /\ monOutcome' = "err"
            /\ UNCHANGED <<monPc, monSeen>>
       ELSE /\ monSeen' = file.mtime
            /\ IF file.mtime > last_modified
               THEN /\ monPc' = "load"
                    /\ UNCHANGED monOutcome
               ELSE /\ monOutcome' = "unchanged"
                    /\ UNCHANGED monPc
    /\ UNCHANGED <<file, mgr, config, last_modified, monNew,
                   progVars, lutVars, accVars, inVars, genVars>>

\* A reload that answers a rejected file by going back to the defaults.
MonLoadOrDefault ==
    /\ monPc = "load"
    /\ IF load_config(file).ok
       THEN /\ monNew' = load_config(file).cfg
            /\ monPc' = "swap"
            /\ UNCHANGED monOutcome
       ELSE /\ monOutcome' = IF load_config(file).io THEN "err" ELSE "rejected"
            /\ monNew' = Default
            /\ monPc' = "swap"
    /\ UNCHANGED <<file, mgr, config, last_modified, monSeen,
                   progVars, lutVars, accVars, inVars, genVars>>

\* A reload that records the modification time of a file it rejected, so
\* that the file is not read again until it changes.
MonLoadStamping ==
    /\ monPc = "load"
    /\ IF load_config(file).ok
       THEN /\ monNew' = load_config(file).cfg
            /\ monPc' = "swap"
            /\ UNCHANGED <<monOutcome, last_modified>>
       ELSE /\ monOutcome' = IF load_config(file).io THEN "err" ELSE "rejected"
            /\ monPc' = "sleep"
            /\ last_modified' = monSeen
            /\ UNCHANGED monNew
    /\ UNCHANGED <<file, mgr, config, monSeen,
                   progVars, lutVars, accVars, inVars, genVars>>

\* check_and_reload, `let new_config = Self::load_config(&self.config_path)?`:
\* an Err returns from check_and_reload before either write.
MonLoad ==
    /\ monPc = "load"
    /\ IF load_config(file).ok
       THEN /\ monNew' = load_config(file).cfg
            /\ monPc' = "swap"
            /\ UNCHANGED monOutcome
       ELSE /\ monOutcome' = IF load_config(file).io THEN "err" ELSE "rejected"
            /\ monPc' = "sleep"
            /\ UNCHANGED monNew
    /\ UNCHANGED <<file, mgr, config, last_modified, monSeen,
                   progVars, lutVars, accVars, inVars, genVars>>

\* A swap that stores the new configuration field by field, releasing the
\* lock in between.
MonSwapTorn ==
    /\ monPc = "swap"
    /\ IF config.infrared_output_value_minimum # monNew.infrared_output_value_minimum
       THEN /\ config' = [config EXCEPT !.infrared_output_value_minimum =
                                             monNew.infrared_output_value_minimum]
            /\ UNCHANGED monPc
       ELSE /\ config' = monNew
            /\ monPc' = "stamp"
    /\ UNCHANGED <<file, mgr, last_modified, monSeen, monNew, monOutcome,
                   progVars, lutVars, accVars, inVars, genVars>>

\* check_and_reload, `*self.config.write() = new_config.clone()`: the whole
\* value is replaced under the write lock, and get_config clones the whole
\* value under the read lock.
MonSwap ==
    /\ monPc = "swap"
    /\ config' = monNew
    /\ monPc' = "stamp"
    /\ UNCHANGED <<file, mgr, last_modified, monSeen, monNew, monOutcome,
                   progVars, lutVars, accVars, inVars, genVars>>

\* check_and_reload, `*self.last_modified.write() = Some(current_modified)`
\* and `return Ok(true)`.
MonStamp ==
    /\ monPc = "stamp"
    /\ last_modified' = monSeen
    /\ monOutcome' = "reloaded"
    /\ monPc' = "sleep"
    /\ UNCHANGED <<file, mgr, config, monSeen, monNew,
                   progVars, lutVars, accVars, inVars, genVars>>

MonitorStep ==
    \/ MonStat
    \/ MonLoad
    \/ MonSwap
    \/ MonStamp

\* The environment: something replaces the file (any content, any
\* modification time) or removes it.
FileContents ==
    {Json(Default),
     Json(Config(0, ConfigUnit \div 2, ConfigUnit)),
     Json(Config(ConfigUnit \div 2, ConfigUnit \div 2, ConfigUnit)),
     Json(Config(ConfigUnit \div 2, 2 * ConfigUnit, ConfigUnit)),
     Json(Config(0, ConfigUnit, 0)),
     Garbage}

WriteFile ==
    /\ \E t \in 1..MaxMtime : \E x \in FileContents : file' = FileWith(t, x)
    /\ UNCHANGED <<mgr, config, last_modified, monPc, monSeen, monNew, monOutcome,
                   progVars, lutVars, accVars, inVars, genVars>>

DeleteFile ==
    /\ file.exists
    /\ file' = NoFile
    /\ UNCHANGED <<mgr, config, last_modified, monPc, monSeen, monNew, monOutcome,
                   progVars, lutVars, accVars, inVars, genVars>>

\* ------------------------------------------------------------------------
\* generate_lut as a loop, send_audio_f32's sample conversion
\* ------------------------------------------------------------------------
\* `for (infrared_point, byte) in lut.iter_mut().enumerate()` over the
\* 65536 entries, run side by side on the two configurations of lutCfg;
\* lutIdx is the entry written last (-1 before the loop).
LutStep ==
    /\ lutIdx < INFRARED_SOURCE_VALUE_MAXIMUM
    /\ lutCfg # <<NoConfig, NoConfig>>
    /\ lutIdx' = lutIdx + 1
    /\ lutOut' = <<LutEntry(lutCfg[1], lutIdx + 1), LutEntry(lutCfg[2], lutIdx + 1)>>
    /\ lutPrev' = IF lutIdx < 0 THEN lutOut' ELSE lutOut
    /\ UNCHANGED <<lutCfg, s16In, s16Out, progVars, cfgVars, lutVars, accVars, inVars>>

\* An f32 sample is held as a whole number of units of 1/256: v stands for
\* v / SampleUnit, and v * 32767 / 256 is an f32 for every |v| <= 256.
SampleUnit == 256

\* i16::MAX
I16Max == 32767

\* sample.clamp(-1.0, 1.0)
Clamp1(v) == IF v < -SampleUnit THEN -SampleUnit ELSE IF v > SampleUnit THEN SampleUnit ELSE v

\* A conversion that rounds to the nearest integer, halves away from zero.
S16Rounded(v) ==
    IF Clamp1(v) >= 0
    THEN (2 * Clamp1(v) * I16Max + SampleUnit) \div (2 * SampleUnit)
    ELSE -((2 * (-Clamp1(v)) * I16Max + SampleUnit) \div (2 * SampleUnit))

\* `(sample.clamp(-1.0, 1.0) * i16::MAX as f32) as i16`: the cast of an f32
\* to i16 drops the fraction (rounds toward zero) and saturates.
S16Of(v) ==
    IF Clamp1(v) >= 0
    THEN (Clamp1(v) * I16Max) \div SampleUnit
    ELSE -(((-Clamp1(v)) * I16Max) \div SampleUnit)

\* The closure of `.map(..)` in send_audio_f32 applied to one sample.
ConvertSample ==
    /\ s16Out = <<>>
    /\ lutCfg = <<NoConfig, NoConfig>>
    /\ s16Out' = <<S16Of(s16In)>>
    /\ UNCHANGED <<s16In, lutCfg, lutIdx, lutOut, lutPrev, progVars, cfgVars, lutVars, accVars, inVars>>

\* ------------------------------------------------------------------------
\* Publish threads: color_frame_publish, infrared_frame_publish,
\* audio_frame_publish, and RtspPublisher::send_*
\* ------------------------------------------------------------------------
\* Positions: "unspawned", "pop" (about to call try_pop), "sleep" (channel
\* found empty), "send" (about to lock the first handle), "pushing" (inside
\* push_buffer with the handle's mutex held), "pusherr" (push_buffer has
\* returned Err, in the arm that logs it, the mutex still held), "send2",
\* "pushing2" and "pusherr2" (the same for the second handle of
\* send_audio_f32), "panicked" (the thread has unwound from a failed
\* assertion).

\* The handle send_color_bgra / send_infra_bgra lock, and the first handle
\* send_audio_f32 locks.  (color_frame_publish calls send_color_yuy2, whose
\* body is not among the sources; the color sender that is, send_color_bgra,
\* has the shape of send_infra_bgra and is what the color thread is given.)
FirstHandle(m) ==
    IF m = "color" THEN "color_src"
    ELSE IF m = "infrared" THEN "infra_src"
    ELSE "color_audio_src"

\* The second handle send_audio_f32 locks.
SecondHandle == "infra_audio_src"

\* First statement of the publish thread: infrared_frame_publish reads the
\* configuration and generates its table before the loop.
FirstPubPc(m) == IF m = "infrared" THEN "init" ELSE "pop"

\* infrared_frame_publish, `let mut current_config = config_manager.get_config();
\* let mut lut = generate_lut(&current_config);`
PubInit(m) ==
    /\ Running(m)
    /\ pubPc[m] = "init"
    /\ current_config' = config
    /\ lut' = generate_lut(config)
    /\ pubPc' = [pubPc EXCEPT ![m] = "pop"]
    /\ UNCHANGED <<mainVars, gateVars, src, holder, capVars, chanVars, pubFrame, popped, rgba_data, cfgVars, accVars, inVars, genVars>>

\* A config check that adopts the new configuration and keeps the old table.
ConfigCheckStale(m) ==
    /\ Running(m)
    /\ m = "infrared"
    /\ pubPc[m] = "pop"
    /\ IF ~configs_equal(current_config, config)
       THEN /\ current_config' = config
            /\ UNCHANGED lut
       ELSE UNCHANGED <<current_config, lut>>
    /\ pubPc' = [pubPc EXCEPT ![m] = "popc"]
    /\ UNCHANGED <<mainVars, gateVars, src, holder, capVars, chanVars, pubFrame, popped, rgba_data, cfgVars, accVars, inVars, genVars>>

\* infrared_frame_publish, the body of
\* `if last_config_check.elapsed() > Duration::from_secs(1)` at the top of
\* the loop.  The clock is not modelled: an iteration takes this step or
\* goes to try_pop at once.
ConfigCheck(m) ==
    /\ Running(m)
    /\ m = "infrared"
    /\ pubPc[m] = "pop"
    /\ IF ~configs_equal(current_config, config)
       THEN /\ current_config' = config
            /\ lut' = generate_lut(config)
       ELSE UNCHANGED <<current_config, lut>>
    /\ pubPc' = [pubPc EXCEPT ![m] = "popc"]
    /\ UNCHANGED <<mainVars, gateVars, src, holder, capVars, chanVars, pubFrame, popped, rgba_data, cfgVars, accVars, inVars, genVars>>

\* The loop `for &pt in infrared_frame.data.iter()`: four bytes per sample
\* are appended to the buffer.
RECURSIVE ExtendAll(_, _, _)
ExtendAll(buf, l, data) ==
    IF data = <<>> THEN buf
    ELSE ExtendAll(buf \o <<l[Head(data)], l[Head(data)], l[Head(data)], 255>>, l, Tail(data))

\* The conversion without `rgba_data.clear()`.
RenderAppend(buf, l, data) == ExtendAll(buf, l, data)

\* `rgba_data.clear()` and the loop.
Render(buf, l, data) == ExtendAll(<<>>, l, data)

\* const FRAME_SIZE: usize = 320
FRAME_SIZE == 320

\* The samples of a frame of `bytes` bytes, named by their position in the
\* stream of samples appended so far.
NewSamples(bytes) == [i \in 1..(bytes \div 4) |-> appended + i]

\* A cast that takes the whole samples of any length and leaves the rest.
CastOkAny(bytes) == TRUE

\* try_cast_slice::<u8, f32> succeeds on a length that is a multiple of
\* size_of::<f32>().
CastOk(bytes) == bytes % 4 = 0

\* AudioFrameBuffer::append_samples: the samples are added at the end.
\* (Module audio_frame_buffer is not among the sources; append_samples and
\* pop_frame follow the description of the accumulator.)
append_samples(a, xs) == a \o xs

\* AudioFrameBuffer::pop_frame(n): the n oldest samples once n are buffered,
\* otherwise None.
pop_frame(a, n) ==
    IF Len(a) >= n
    THEN [some |-> TRUE, frame |-> SubSeq(a, 1, n), rest |-> SubSeq(a, n + 1, Len(a))]
    ELSE [some |-> FALSE, frame |-> <<>>, rest |-> a]

\* `if let` in the place of `while let`: one chunk per frame at most.
DrainOnce(m, a, f) ==
    IF pubPc[m] \in {"send2", "pushing2", "pusherr2"}
    THEN /\ acc' = a
         /\ chunk' = <<>>
         /\ emitted' = emitted
         /\ pubPc' = [pubPc EXCEPT ![m] = "pop"]
         /\ pubFrame' = [pubFrame EXCEPT ![m] = 0]
    ELSE /\ acc' = pop_frame(a, FRAME_SIZE).rest
         /\ chunk' = pop_frame(a, FRAME_SIZE).frame
         /\ emitted' = IF pop_frame(a, FRAME_SIZE).some THEN emitted + 1 ELSE emitted
         /\ pubPc' = [pubPc EXCEPT ![m] = IF pop_frame(a, FRAME_SIZE).some THEN "send" ELSE "pop"]
         /\ pubFrame' = [pubFrame EXCEPT ![m] = IF pop_frame(a, FRAME_SIZE).some THEN f ELSE 0]

\* One turn of `while let Some(input_chunk) = audio_frame_buffer.pop_frame(FRAME_SIZE)`
\* on the buffer a: with a chunk the thread goes to send_audio_f32, without
\* one back to try_pop.
Drain(m, a, f) ==
    /\ acc' = pop_frame(a, FRAME_SIZE).rest
    /\ chunk' = pop_frame(a, FRAME_SIZE).frame
    /\ emitted' = IF pop_frame(a, FRAME_SIZE).some THEN emitted + 1 ELSE emitted
    /\ pubPc' = [pubPc EXCEPT ![m] = IF pop_frame(a, FRAME_SIZE).some THEN "send" ELSE "pop"]
    /\ pubFrame' = [pubFrame EXCEPT ![m] = IF pop_frame(a, FRAME_SIZE).some THEN f ELSE 0]

\* color_frame_publish without its assert_eq!: every frame that is not empty
\* is sent.
ColorCheckLax(p) == IF p = "empty" THEN "pop" ELSE "send"

\* color_frame_publish on a frame of payload p, which is "empty" (data is
\* empty), "yuy2" (data in ColorImageFormat::Yuy2) or the name of another
\* format: `if color_frame.data.is_empty() { continue; }`, then
\* `assert_eq!(color_frame.image_format, ColorImageFormat::Yuy2, ..)`, which
\* panics on a mismatch and unwinds the thread.
ColorCheck(p) ==
    IF p = "empty" THEN "pop"
    ELSE IF p = "yuy2" THEN "send"
    ELSE "panicked"

\* The body of `if let Some(frame) = raw_rx.try_pop()` up to the call of the
\* sender, for the frame f.
\*   color:    an empty frame is skipped, one of another format than Yuy2
\*             panics, any other is sent as it is;
\*   infrared: an empty frame is skipped, any other is converted into
\*             rgba_data;
\*   audio:    an empty frame and one try_cast_slice rejects are skipped,
\*             any other is appended and the chunk loop is entered.
Accept(m, f) ==
    IF m = "color"
    THEN /\ pubFrame' = [pubFrame EXCEPT ![m] = IF ColorCheck(payload[m][f]) = "send" THEN f ELSE 0]
         /\ pubPc' = [pubPc EXCEPT ![m] = ColorCheck(payload[m][f])]
         /\ UNCHANGED <<rgba_data, accVars>>
    ELSE IF m = "infrared"
    THEN /\ IF payload[m][f] = <<>>
            THEN /\ pubFrame' = [pubFrame EXCEPT ![m] = 0]
                 /\ pubPc' = [pubPc EXCEPT ![m] = "pop"]
                 /\ UNCHANGED rgba_data
            ELSE /\ pubFrame' = [pubFrame EXCEPT ![m] = f]
                 /\ pubPc' = [pubPc EXCEPT ![m] = "send"]
                 /\ rgba_data' = Render(rgba_data, lut, payload[m][f])
         /\ UNCHANGED accVars
    ELSE /\ IF payload[m][f] = 0 \/ ~CastOk(payload[m][f])
            THEN /\ pubFrame' = [pubFrame EXCEPT ![m] = 0]
                 /\ pubPc' = [pubPc EXCEPT ![m] = "pop"]
                 /\ UNCHANGED accVars
            ELSE /\ appended' = appended + Len(NewSamples(payload[m][f]))
                 /\ Drain(m, append_samples(acc, NewSamples(payload[m][f])), f)
         /\ UNCHANGED rgba_data

\* `if let Some(frame) = raw_rx.try_pop() { .. } else { sleep }`
Pop(m) ==
    /\ Running(m)
    /\ pubPc[m] \in {"pop", "popc"}
    /\ IF TryPop(queue[m]) # 0
       THEN /\ popped' = [popped EXCEPT ![m] = Append(@, TryPop(queue[m]))]
            /\ queue' = [queue EXCEPT ![m] = AfterPop(queue[m])]
            /\ Accept(m, TryPop(queue[m]))
       ELSE /\ pubPc' = [pubPc EXCEPT ![m] = "sleep"]
            /\ UNCHANGED <<pubFrame, popped, queue, rgba_data, accVars>>
    /\ UNCHANGED <<mainVars, clientCount, src, holder, clients, sess,
                   capVars, dropped, cfgVars, current_config, lut, inVars, genVars>>

\* std::thread::sleep in the else branch of the publish loop.
PubWake(m) ==
    /\ Running(m)
    /\ pubPc[m] = "sleep"
    /\ pubPc' = [pubPc EXCEPT ![m] = "pop"]
    /\ UNCHANGED <<extVars, mainVars, clientCount, src, holder, clients, sess,
                   capVars, chanVars, pubFrame, popped>>

\* Where the publish thread goes after the first handle.
AfterFirst(m) == IF m = "audio" THEN "send2" ELSE "pop"

\* `if let Some(appsrc) = self.color_src.lock().unwrap().as_ref()`: lock the
\* mutex; with None the guard is dropped at once, with Some it is held for
\* the push.  (send_audio_f32 converts the chunk first, see S16Of.)
Send(m) ==
    /\ Running(m)
    /\ pubPc[m] = "send"
    /\ holder[FirstHandle(m)] = "free"
    /\ IF src[FirstHandle(m)] # 0
       THEN /\ holder' = [holder EXCEPT ![FirstHandle(m)] = m]
            /\ pubPc' = [pubPc EXCEPT ![m] = "pushing"]
            /\ UNCHANGED pubFrame
       ELSE /\ pubPc' = [pubPc EXCEPT ![m] = AfterFirst(m)]
            /\ pubFrame' = [pubFrame EXCEPT ![m] = IF m = "audio" THEN @ ELSE 0]
            /\ UNCHANGED holder
    /\ UNCHANGED <<extVars, mainVars, clientCount, src, clients, sess,
                   capVars, chanVars, popped>>

\* What appsrc.push_buffer can return: Ok(FlowSuccess) or Err(FlowError).
PushResults == {"ok", "err"}

\* A sender whose guard outlives the block of the push: the mutex stays
\* locked when the thread moves on.
PushedKeepsLock(m) ==
    /\ Running(m)
    /\ pubPc[m] = "pushing"
    /\ \E res \in PushResults :
        IF res = "ok"
        THEN /\ pubPc' = [pubPc EXCEPT ![m] = AfterFirst(m)]
             /\ pubFrame' = [pubFrame EXCEPT ![m] = IF m = "audio" THEN @ ELSE 0]
             /\ UNCHANGED holder
        ELSE /\ pubPc' = [pubPc EXCEPT ![m] = "pusherr"]
             /\ UNCHANGED <<holder, pubFrame>>
    /\ UNCHANGED <<extVars, mainVars, clientCount, src, clients, sess,
                   capVars, chanVars, popped>>

\* appsrc.push_buffer(buffer) returns.  With Ok the block ends and the guard
\* is dropped; with Err the thread enters `if let Err(e) = ..`.
Pushed(m) ==
    /\ Running(m)
    /\ pubPc[m] = "pushing"
    /\ \E res \in PushResults :
        IF res = "ok"
        THEN /\ holder' = [holder EXCEPT ![FirstHandle(m)] = "free"]
             /\ pubPc' = [pubPc EXCEPT ![m] = AfterFirst(m)]
             /\ pubFrame' = [pubFrame EXCEPT ![m] = IF m = "audio" THEN @ ELSE 0]
        ELSE /\ pubPc' = [pubPc EXCEPT ![m] = "pusherr"]
             /\ UNCHANGED <<holder, pubFrame>>
    /\ UNCHANGED <<extVars, mainVars, clientCount, src, clients, sess,
                   capVars, chanVars, popped>>

\* A sender that gives the error of push_buffer back and a publish loop that
\* returns it with `?`.
PushFailedFatal(m) ==
    /\ Running(m)
    /\ pubPc[m] = "pusherr"
    /\ holder' = [holder EXCEPT ![FirstHandle(m)] = "free"]
    /\ pubPc' = [pubPc EXCEPT ![m] = "exited"]
    /\ pubFrame' = [pubFrame EXCEPT ![m] = 0]
    /\ UNCHANGED <<extVars, mainVars, clientCount, src, clients, sess,
                   capVars, chanVars, popped>>

\* `if let Err(e) = appsrc.push_buffer(buffer) { log }`: the error is logged
\* (debug for Flushing, warn otherwise), the block ends and the guard is
\* dropped.
PushFailed(m) ==
    /\ Running(m)
    /\ pubPc[m] = "pusherr"
    /\ holder' = [holder EXCEPT ![FirstHandle(m)] = "free"]
    /\ pubPc' = [pubPc EXCEPT ![m] = AfterFirst(m)]
    /\ pubFrame' = [pubFrame EXCEPT ![m] = IF m = "audio" THEN @ ELSE 0]
    /\ UNCHANGED <<extVars, mainVars, clientCount, src, clients, sess,
                   capVars, chanVars, popped>>

\* send_audio_f32: `if let Some(appsrc) = self.infra_audio_src.lock()..`;
\* with None send_audio_f32 returns and the chunk loop takes its next turn.
Send2(m) ==
    /\ Running(m)
    /\ pubPc[m] = "send2"
    /\ holder[SecondHandle] = "free"
    /\ IF src[SecondHandle] # 0
       THEN /\ holder' = [holder EXCEPT ![SecondHandle] = m]
            /\ pubPc' = [pubPc EXCEPT ![m] = "pushing2"]
            /\ UNCHANGED <<pubFrame, acc, chunk, emitted>>
       ELSE /\ Drain(m, acc, pubFrame[m])
            /\ UNCHANGED holder
    /\ UNCHANGED <<mainVars, clientCount, src, clients, sess,
                   capVars, chanVars, popped, cfgVars, lutVars, appended, inVars, genVars>>

\* send_audio_f32: push_buffer on infra_audio_src returns.  With Ok
\* send_audio_f32 returns and the chunk loop takes its next turn; with Err
\* the thread enters the arm that logs it.
Pushed2(m) ==
    /\ Running(m)
    /\ pubPc[m] = "pushing2"
    /\ \E res \in PushResults :
        IF res = "ok"
        THEN /\ holder' = [holder EXCEPT ![SecondHandle] = "free"]
             /\ Drain(m, acc, pubFrame[m])
        ELSE /\ pubPc' = [pubPc EXCEPT ![m] = "pusherr2"]
             /\ UNCHANGED <<holder, pubFrame, acc, chunk, emitted>>
    /\ UNCHANGED <<mainVars, clientCount, src, clients, sess,
                   capVars, chanVars, popped, cfgVars, lutVars, appended, inVars, genVars>>

\* send_audio_f32: the error of the second push is logged, send_audio_f32
\* returns and the chunk loop takes its next turn.
PushFailed2(m) ==
    /\ Running(m)
    /\ pubPc[m] = "pusherr2"
    /\ holder' = [holder EXCEPT ![SecondHandle] = "free"]
    /\ Drain(m, acc, pubFrame[m])
    /\ UNCHANGED <<mainVars, clientCount, src, clients, sess,
                   capVars, chanVars, popped, cfgVars, lutVars, appended, inVars, genVars>>

PublishStep(m) ==
    \/ Pop(m)
    \/ PubWake(m)
    \/ Send(m)
    \/ Pushed(m)
    \/ PushFailed(m)

\* ------------------------------------------------------------------------
\* main / start_kinect_capture
\* ------------------------------------------------------------------------
\* Positions: "new" (Kinect::new), "wait" (the availability wait loop),
\* "final" (the check after the loop), "rtsp_start", "spawn_color",
\* "spawn_infra", "spawn_audio", "serving" (start_kinect_capture returned
\* Ok, main waits for Ctrl-C), "exited" (main returned Err).

\* Kinect::new().context(..)?
KinectNew ==
    /\ mainPc = "new"
    /\ \E ok \in BOOLEAN : mainPc' = IF ok THEN "wait" ELSE "exited"
    /\ UNCHANGED <<extVars, waitCount, available, serverUp, spawned, clientCount, src, holder,
                   clients, sess, capVars, chanVars, pubVars>>

\* One iteration of `for _ in 0..10 { if kinect.is_available()? { break; } sleep }`.
WaitLoop ==
    /\ mainPc = "wait"
    /\ IF waitCount < WaitRounds
       THEN \E r \in {"yes", "no", "err"} :
               /\ available' = r
               /\ mainPc' = IF r = "err" THEN "exited"
                            ELSE IF r = "yes" THEN "final"
                            ELSE "wait"
               /\ waitCount' = IF r = "no" THEN waitCount + 1 ELSE waitCount
       ELSE /\ mainPc' = "final"
            /\ UNCHANGED <<waitCount, available>>
    /\ UNCHANGED <<extVars, serverUp, spawned, clientCount, src, holder,
                   clients, sess, capVars, chanVars, pubVars>>

\* The final check with its `!available` branch missing.
AfterFinalCheckIgnored(r) == IF r = "err" THEN "exited" ELSE "rtsp_start"

\* Where main goes after the final is_available() call.
AfterFinalCheck(r) == IF r = "yes" THEN "rtsp_start" ELSE "exited"

\* `if !kinect.is_available()? { return Err(..) }`
FinalCheck ==
    /\ mainPc = "final"
    /\ \E r \in {"yes", "no", "err"} :
        /\ available' = r
        /\ mainPc' = AfterFinalCheck(r)
    /\ UNCHANGED <<extVars, waitCount, serverUp, spawned, clientCount, src, holder,
                   clients, sess, capVars, chanVars, pubVars>>

\* RtspPublisher::start(..)?: counters at 0, handles None, main loop running.
RtspStart ==
    /\ mainPc = "rtsp_start"
    /\ \E ok \in BOOLEAN :
        /\ serverUp' = ok
        /\ mainPc' = IF ok THEN "spawn_color" ELSE "exited"
    /\ UNCHANGED <<extVars, waitCount, available, spawned, clientCount, src, holder,
                   clients, sess, capVars, chanVars, pubVars>>

SpawnOrder == <<"color", "infrared", "audio">>

SpawnPc(i) == <<"spawn_color", "spawn_infra", "spawn_audio", "serving">>[i]

\* spawn_color_pipeline / spawn_infra_pipeline / spawn_audio_pipeline: the
\* ring buffer is created and split, both threads are spawned.
\* spawn_infra_pipeline is given the Arc of a constructed manager.
SpawnPipeline(i) ==
    /\ mainPc = SpawnPc(i)
    /\ SpawnOrder[i] = "infrared" => mgr = "ready"
    /\ LET m == SpawnOrder[i]
       IN /\ spawned' = spawned \cup {m}
          /\ capPc' = [capPc EXCEPT ![m] = FirstPc(m)]
          /\ pubPc' = [pubPc EXCEPT ![m] = FirstPubPc(m)]
          /\ queue' = [queue EXCEPT ![m] = <<>>]
    /\ mainPc' = SpawnPc(i + 1)
    /\ UNCHANGED <<extVars, waitCount, available, serverUp, clientCount, src, holder,
                   clients, sess, device, iter, obs, frame, supply, produced,
                   dropped, pubFrame, popped>>

MainStep ==
    \/ KinectNew
    \/ WaitLoop
    \/ FinalCheck
    \/ RtspStart
    \/ \E i \in 1..3 : SpawnPipeline(i)

\* ------------------------------------------------------------------------
\* Initial states and specifications
\* ------------------------------------------------------------------------
\* The locals of the publish threads before their first statement, and no
\* frame delivered yet.
Unstarted ==
    /\ current_config = NoConfig
    /\ lut = [s \in IrSamples |-> 0]
    /\ rgba_data = <<>>
    /\ acc = <<>>
    /\ chunk = <<>>
    /\ appended = 0
    /\ emitted = 0
    /\ payload = [m \in Modalities |-> <<>>]

\* A manager InfraredConfigManager::new has built from a file holding c,
\* with no monitor thread spawned.
ManagerReady(c) ==
    /\ file = FileWith(1, Json(c))
    /\ mgr = "ready"
    /\ config = c
    /\ last_modified = 1
    /\ monPc = "unspawned"
    /\ monSeen = 0
    /\ monNew = NoConfig
    /\ monOutcome = "none"

\* generate_lut and the sample conversion not started on their own.
NoGen ==
    /\ lutCfg = <<NoConfig, NoConfig>>
    /\ lutIdx = -1
    /\ lutOut = <<0, 0>>
    /\ lutPrev = <<0, 0>>
    /\ s16In = 0
    /\ s16Out = <<>>

\* One payload per modality: a color frame, an infrared frame of one
\* sample, an audio frame of exactly one chunk.
PlainInputs ==
    [m \in Modalities |->
        IF m = "color" THEN {"yuy2"}
        ELSE IF m = "infrared" THEN {<<4369>>}
        ELSE {4 * FRAME_SIZE}]

\* The defaults in the file, a manager built from it and unvarying frames.
Plain ==
    /\ ManagerReady(Default)
    /\ NoGen
    /\ inputs = PlainInputs

\* The state of RtspPublisher, of the session layer and of the pipelines
\* `sp` right after they are created.
Fresh(sp) ==
    /\ clientCount = [s \in Streams |-> 0]
    /\ src = [h \in Handles |-> 0]
    /\ holder = [h \in Handles |-> "free"]
    /\ sess = [s \in Streams |-> [k \in SessionIds |-> "none"]]
    /\ capPc = [m \in Modalities |-> IF m \in sp THEN FirstPc(m) ELSE "unspawned"]
    /\ device = [m \in Modalities |-> FALSE]
    /\ iter = [m \in Modalities |-> FALSE]
    /\ obs = [m \in Modalities |-> NotLoaded]
    /\ frame = [m \in Modalities |-> 0]
    /\ produced = [m \in Modalities |-> 0]
    /\ queue = [m \in Modalities |-> <<>>]
    /\ dropped = [m \in Modalities |-> <<>>]
    /\ pubPc = [m \in Modalities |-> IF m \in sp THEN FirstPubPc(m) ELSE "unspawned"]
    /\ pubFrame = [m \in Modalities |-> 0]
    /\ popped = [m \in Modalities |-> <<>>]
    /\ Unstarted

\* start_kinect_capture has returned Ok with the pipelines `sp` scheduled.
Serving(sp) ==
    /\ mainPc = "serving"
    /\ waitCount = 0
    /\ available = "yes"
    /\ serverUp = TRUE
    /\ spawned = sp

\* The mounts whose counter the gate of modality m reads.
GateStreams(m) == IF m = "audio" THEN Streams ELSE {FirstGate(m)}

\* The whole program from process start, with no client connecting.
Init ==
    /\ mainPc = "new"
    /\ waitCount = 0
    /\ available = "unknown"
    /\ serverUp = FALSE
    /\ spawned = {}
    /\ Fresh({})
    /\ clients = [s \in Streams |-> 0]
    /\ supply = [m \in Modalities |-> 0]
    /\ Plain

Next ==
    \/ MainStep
    \/ \E m \in Modalities :
        \/ GateCheck(m)
        \/ GateCheckInfra(m)
        \/ ReleaseDevice(m)
        \/ IdleWake(m)
        \/ OpenDevice(m)
        \/ PubInit(m)
        \/ Pop(m)
        \/ PubWake(m)

Spec == Init /\ [][Next]_vars

\* The session callbacks of both mounts, MaxSessions clients each.
InitGate ==
    /\ Serving({})
    /\ Fresh({})
    /\ clients = [s \in Streams |-> MaxSessions]
    /\ supply = [m \in Modalities |-> 0]
    /\ Plain

NextGate == SessionStep

SpecGate == InitGate /\ [][NextGate]_vars

\* The session callbacks, and session ends signalled with no matching start.
NextGateUnmatched ==
    \/ SessionStep
    \/ \E s \in Streams : \E k \in SessionIds : UnpreparedAgain(s, k)

SpecGateUnmatched == InitGate /\ [][NextGateUnmatched]_vars

\* The mount whose sessions are scheduled next to pipeline m in SpecChannel;
\* for audio it is the one is_capture_active() loads last.
ChannelMount(m) == IF m = "color" THEN "color" ELSE "infrared"

\* One pipeline and one client session of a mount that gates it; the sensor
\* delivers more frames than the channel holds.
InitChannel ==
    \E m \in Modalities :
        /\ Serving({m})
        /\ Fresh({m})
        /\ clients = [s \in Streams |-> IF s = ChannelMount(m) THEN 1 ELSE 0]
        /\ supply = [x \in Modalities |-> IF x = m THEN Capacity(m) + ExtraFrames ELSE 0]
        /\ Plain

NextChannel ==
    \/ SessionStep
    \/ \E m \in Modalities :
        \/ CaptureStep(m)
        \/ GateCheckInfra(m)
        \/ PubInit(m)
        \/ PublishStep(m)
        \/ Send2(m)
        \/ Pushed2(m)
        \/ PushFailed2(m)

SpecChannel == InitChannel /\ [][NextChannel]_vars

\* The audio pipeline and one client session on each of the two mounts its
\* gate reads.
InitAudioGate ==
    /\ Serving({"audio"})
    /\ Fresh({"audio"})
    /\ clients = [s \in Streams |-> 1]
    /\ supply = [m \in Modalities |-> IF m = "audio" THEN FewFrames ELSE 0]
    /\ Plain

NextAudioGate ==
    \/ SessionStep
    \/ CaptureStep("audio")
    \/ GateCheckInfra("audio")
    \/ PublishStep("audio")
    \/ Send2("audio")
    \/ Pushed2("audio")
    \/ PushFailed2("audio")

SpecAudioGate == InitAudioGate /\ [][NextAudioGate]_vars

\* The state of RtspPublisher and of the session layer once the first client
\* of each mount is connected (its media_configure has returned).
Connected ==
    /\ clientCount = [s \in Streams |-> 1]
    /\ src = [h \in Handles |-> 1]
    /\ holder = [h \in Handles |-> "free"]
    /\ sess = [s \in Streams |-> [k \in SessionIds |-> IF k = 1 THEN "live" ELSE "none"]]
    /\ clients = [s \in Streams |-> 1]

\* The three pipelines right after they are spawned.
Spawned3 ==
    /\ capPc = [m \in Modalities |-> FirstPc(m)]
    /\ device = [m \in Modalities |-> FALSE]
    /\ iter = [m \in Modalities |-> FALSE]
    /\ obs = [m \in Modalities |-> NotLoaded]
    /\ frame = [m \in Modalities |-> 0]
    /\ produced = [m \in Modalities |-> 0]
    /\ queue = [m \in Modalities |-> <<>>]
    /\ dropped = [m \in Modalities |-> <<>>]
    /\ pubPc = [m \in Modalities |-> FirstPubPc(m)]
    /\ pubFrame = [m \in Modalities |-> 0]
    /\ popped = [m \in Modalities |-> <<>>]
    /\ Unstarted

\* The three pipelines with a client connected to each mount for the whole
\* run; the sensor delivering FewFrames color and infrared frames and no
\* audio frame.
InitCapture ==
    /\ Serving(Modalities)
    /\ Connected
    /\ Spawned3
    /\ supply = [m \in Modalities |-> IF m = "audio" THEN 0 ELSE FewFrames]
    /\ Plain

NextCapture ==
    \E m \in Modalities :
        \/ GateCheck(m)
        \/ OpenDevice(m)
        \/ MakeIter(m)
        \/ Poll(m)
        \/ Warned(m)
        \/ NapWake(m)
        \/ Push(m)
        \/ PubInit(m)
        \/ PublishStep(m)

SpecCapture == InitCapture /\ [][NextCapture]_vars

\* The configuration manager from its construction on, its monitor thread,
\* the file changing under it, and the infrared publish thread reading the
\* configuration (main has spawned the color pipeline and is about to spawn
\* the infrared one; no frame arrives).
InitConfig ==
    /\ mainPc = "spawn_infra"
    /\ waitCount = 0
    /\ available = "yes"
    /\ serverUp = TRUE
    /\ spawned = {"color"}
    /\ Fresh({"color"})
    /\ clients = [s \in Streams |-> 0]
    /\ supply = [m \in Modalities |-> 0]
    /\ file \in {FileWith(1, x) : x \in FileContents} \cup {NoFile}
    /\ mgr = "none"
    /\ config = NoConfig
    /\ last_modified = 0
    /\ monPc = "unspawned"
    /\ monSeen = 0
    /\ monNew = NoConfig
    /\ monOutcome = "none"
    /\ NoGen
    /\ inputs = PlainInputs

NextConfig ==
    \/ ManagerNew
    \/ ManagerNewStat
    \/ SpawnMonitor
    \/ MonitorStep
    \/ WriteFile
    \/ DeleteFile
    \/ SpawnPipeline(2)
    \/ PubInit("infrared")
    \/ ConfigCheck("infrared")
    \/ Pop("infrared")
    \/ PubWake("infrared")

SpecConfig == InitConfig /\ [][NextConfig]_vars

\* The audio pipeline with a client connected to each mount for the whole
\* run, the microphone delivering frames of 0, 6, 800 and 2000 bytes (no
\* sample, a length try_cast_slice rejects, 200 and 500 samples).
AudioInputs == [PlainInputs EXCEPT !["audio"] = {0, 6, 800, 2000}]

InitAudio ==
    /\ Serving({"audio"})
    /\ Connected
    /\ capPc = [m \in Modalities |-> IF m = "audio" THEN FirstPc(m) ELSE "unspawned"]
    /\ device = [m \in Modalities |-> FALSE]
    /\ iter = [m \in Modalities |-> FALSE]
    /\ obs = [m \in Modalities |-> NotLoaded]
    /\ frame = [m \in Modalities |-> 0]
    /\ produced = [m \in Modalities |-> 0]
    /\ queue = [m \in Modalities |-> <<>>]
    /\ dropped = [m \in Modalities |-> <<>>]
    /\ pubPc = [m \in Modalities |-> IF m = "audio" THEN FirstPubPc(m) ELSE "unspawned"]
    /\ pubFrame = [m \in Modalities |-> 0]
    /\ popped = [m \in Modalities |-> <<>>]
    /\ Unstarted
    /\ supply = [m \in Modalities |-> IF m = "audio" THEN AudioFrames ELSE 0]
    /\ ManagerReady(Default)
    /\ NoGen
    /\ inputs = AudioInputs

NextAudio ==
    \/ GateCheck("audio")
    \/ OpenDevice("audio")
    \/ MakeIter("audio")
    \/ Poll("audio")
    \/ Warned("audio")
    \/ NapWake("audio")
    \/ Push("audio")
    \/ PublishStep("audio")
    \/ Send2("audio")
    \/ Pushed2("audio")
    \/ PushFailed2("audio")

SpecAudio == InitAudio /\ [][NextAudio]_vars

\* Nothing is spawned and nobody connects.
Quiet ==
    /\ Serving({})
    /\ Fresh({})
    /\ clients = [s \in Streams |-> 0]
    /\ supply = [m \in Modalities |-> 0]
    /\ ManagerReady(Default)
    /\ inputs = PlainInputs

\* The conversion of send_audio_f32 on one sample.
InitSample ==
    /\ Quiet
    /\ lutCfg = <<NoConfig, NoConfig>>
    /\ lutIdx = -1
    /\ lutOut = <<0, 0>>
    /\ lutPrev = <<0, 0>>
    /\ s16In \in (-SampleRange)..SampleRange
    /\ s16Out = <<>>

NextSample == ConvertSample

SpecSample == InitSample /\ [][NextSample]_vars

\* Configurations generate_lut is run on, in pairs: the defaults twice; two
\* with the maximum one half and one half plus 2^-24, which the ramp
\* exceeds; two that differ by 2^-25 in the minimum, on the two sides of
\* 63.5 / 255.  The two of a pair are equal for configs_equal.
LutPairs ==
    {<<Default, Default>>,
     <<Config(ConfigUnit \div 8, ConfigUnit \div 2, ConfigUnit),
       Config(ConfigUnit \div 8, ConfigUnit \div 2 + 2, ConfigUnit)>>,
     <<Config(8355711, ConfigUnit, 3 * ConfigUnit), Config(8355712, ConfigUnit, 3 * ConfigUnit)>>}

InitLut ==
    /\ Quiet
    /\ lutCfg \in LutPairs
    /\ lutIdx = -1
    /\ lutOut = <<0, 0>>
    /\ lutPrev = <<0, 0>>
    /\ s16In = 0
    /\ s16Out = <<>>

NextLut == LutStep

SpecLut == InitLut /\ [][NextLut]_vars

\* The infrared publish thread with a client connected for the whole run
\* and IrFrames frames waiting in the channel: frames of no, one and two
\* samples in every order.  The capture thread has pushed them and is not
\* scheduled again.  The manager was built from the defaults, the file has
\* been replaced since, and check_and_reload has loaded the new content and
\* is about to swap it in.
IrInputs == [PlainInputs EXCEPT !["infrared"] = {<<>>, <<4369>>, <<0, 65535>>}]

Dimmer == Config(0, ConfigUnit \div 2, ConfigUnit)

\* The state described above with c the new content of the file.
RenderStart(c) ==
    /\ Serving({"infrared"})
    /\ Connected
    /\ capPc = [m \in Modalities |-> IF m = "infrared" THEN "poll" ELSE "unspawned"]
    /\ device = [m \in Modalities |-> m = "infrared"]
    /\ iter = [m \in Modalities |-> m = "infrared"]
    /\ obs = [m \in Modalities |->
                IF m = "infrared" THEN [NotLoaded EXCEPT !["infrared"] = "positive"]
                ELSE NotLoaded]
    /\ frame = [m \in Modalities |-> 0]
    /\ supply = [m \in Modalities |-> IF m = "infrared" THEN IrFrames ELSE 0]
    /\ produced = supply
    /\ queue = [m \in Modalities |-> IF m = "infrared" THEN [i \in 1..IrFrames |-> i] ELSE <<>>]
    /\ dropped = [m \in Modalities |-> <<>>]
    /\ pubPc = [m \in Modalities |-> IF m = "infrared" THEN FirstPubPc(m) ELSE "unspawned"]
    /\ pubFrame = [m \in Modalities |-> 0]
    /\ popped = [m \in Modalities |-> <<>>]
    /\ current_config = NoConfig
    /\ lut = [s \in IrSamples |-> 0]
    /\ rgba_data = <<>>
    /\ acc = <<>>
    /\ chunk = <<>>
    /\ appended = 0
    /\ emitted = 0
    /\ inputs = IrInputs
    /\ \E data \in [1..IrFrames -> IrInputs["infrared"]] :
            payload = [m \in Modalities |-> IF m = "infrared" THEN data ELSE <<>>]
    /\ file = FileWith(2, Json(c))
    /\ mgr = "ready"
    /\ config = Default
    /\ last_modified = 1
    /\ monPc = "swap"
    /\ monSeen = 2
    /\ monNew = c
    /\ monOutcome = "none"
    /\ NoGen

InitRender == RenderStart(Dimmer)

NextRender ==
    \/ MonSwap
    \/ MonStamp
    \/ MonStat
    \/ PubInit("infrared")
    \/ ConfigCheck("infrared")
    \/ PublishStep("infrared")

SpecRender == InitRender /\ [][NextRender]_vars

\* The defaults with the output minimum 2^-25 higher: equal to the defaults
\* for configs_equal.
Nudged == [Default EXCEPT !.infrared_output_value_minimum = @ + 1]

\* The same threads with the new content of the file either Dimmer or
\* Nudged, and with the scheduling the code relies on: the publish thread
\* keeps running (its sleeps end, the mutex of its handle is free again
\* after every push), and the second that
\* `last_config_check.elapsed() > Duration::from_secs(1)` waits for passes,
\* so that of the iterations that come to the top of the loop again and
\* again one makes the config check.
InitAdopt == \E c \in {Dimmer, Nudged} : RenderStart(c)

NextAdopt == NextRender

\* The move PubInit makes in the position of the thread; no other step
\* makes it.
PubStarts ==
    /\ Running("infrared")
    /\ pubPc["infrared"] = "init"
    /\ pubPc' = [pubPc EXCEPT !["infrared"] = "pop"]

\* The move ConfigCheck makes in the position of the thread; no other step
\* makes it.
ConfigChecked ==
    /\ Running("infrared")
    /\ pubPc["infrared"] = "pop"
    /\ pubPc' = [pubPc EXCEPT !["infrared"] = "popc"]

SpecAdopt ==
    /\ InitAdopt
    /\ [][NextAdopt]_vars
    /\ WF_pubPc(PubStarts)
    /\ WF_vars(PublishStep("infrared"))
    /\ SF_pubPc(ConfigChecked)

\* One pipeline and one client session of a mount that gates it, as in
\* SpecChannel with few frames, and every capture thread that can take a
\* step eventually taking one: the operating system schedules every thread
\* and every sleep ends.
InitAcquire ==
    \E m \in Modalities :
        /\ Serving({m})
        /\ Fresh({m})
        /\ clients = [s \in Streams |-> IF s = ChannelMount(m) THEN 1 ELSE 0]
        /\ supply = [x \in Modalities |-> IF x = m THEN FewFrames ELSE 0]
        /\ Plain

NextAcquire ==
    \/ SessionStep
    \/ \E m \in Modalities :
        \/ CaptureStep(m)
        \/ GateCheckInfra(m)
        \/ PubInit(m)
        \/ PublishStep(m)
        \/ Send2(m)
        \/ Pushed2(m)
        \/ PushFailed2(m)

SpecAcquire ==
    /\ InitAcquire
    /\ [][NextAcquire]_vars
    /\ \A m \in Modalities : WF_vars(CaptureStep(m) \/ GateCheckInfra(m))

\* One pipeline and MaxSessions client sessions, one after the other or
\* overlapping, of a mount that gates it: the gate of the pipeline becomes
\* active, inactive and active again while the capture thread acquires its
\* device, fails or runs.
InitExit ==
    \E m \in Modalities :
        /\ Serving({m})
        /\ Fresh({m})
        /\ clients = [s \in Streams |-> IF s = ChannelMount(m) THEN MaxSessions ELSE 0]
        /\ supply = [x \in Modalities |-> IF x = m THEN FewFrames ELSE 0]
        /\ Plain

NextExit == NextAcquire

SpecExit == InitExit /\ [][NextExit]_vars

\* The scheduling under which a session end is followed to its completion.
\* A publish thread that can take a step eventually takes one; for a thread
\* inside push_buffer that step is the return of the call: the appsrc is
\* configured with set_block(true), so the call waits while the queue of the
\* appsrc is full, and it returns when the running pipeline has drained the
\* queue or, with Flushing, when the pipeline of the ending session has been
\* stopped.  A callback that finds the mutex free again and again eventually
\* takes it.
NextBlock == NextAcquire

SpecBlock ==
    /\ InitAcquire
    /\ [][NextBlock]_vars
    /\ \A m \in Modalities :
          WF_vars(PublishStep(m) \/ Send2(m) \/ Pushed2(m) \/ PushFailed2(m))
    /\ \A s \in Streams : \A k \in SessionIds :
          SF_vars(UnprepareVideo(s, k) \/ UnprepareAudio(s, k))

\* The color pipeline beside one of the other two, with a client connected
\* to each mount for the whole run.  The color capture thread holds device
\* and iterator, has pushed ColorFrames frames that wait in the channel
\* (Yuy2 frames and then one that is empty, Yuy2 or Bgra) and is about to
\* poll again; the frames that follow are Bgra, one more of them than the
\* channel holds.  The other sensor delivers nothing.
ColorKinds == {"empty", "yuy2", "bgra"}

InitColor ==
    /\ \E other \in Modalities \ {"color"} : Serving({"color", other})
    /\ Connected
    /\ capPc = [m \in Modalities |-> IF m = "color" THEN "poll" ELSE FirstPc(m)]
    /\ device = [m \in Modalities |-> m = "color"]
    /\ iter = [m \in Modalities |-> m = "color"]
    /\ obs = [m \in Modalities |->
                IF m = "color" THEN [NotLoaded EXCEPT !["color"] = "positive"]
                ELSE NotLoaded]
    /\ frame = [m \in Modalities |-> 0]
    /\ supply = [m \in Modalities |->
                   IF m = "color" THEN ColorFrames + ColorCapacity + 1 ELSE 0]
    /\ produced = [m \in Modalities |-> IF m = "color" THEN ColorFrames ELSE 0]
    /\ queue = [m \in Modalities |->
                  IF m = "color" THEN [i \in 1..ColorFrames |-> i] ELSE <<>>]
    /\ dropped = [m \in Modalities |-> <<>>]
    /\ pubPc = [m \in Modalities |-> FirstPubPc(m)]
    /\ pubFrame = [m \in Modalities |-> 0]
    /\ popped = [m \in Modalities |-> <<>>]
    /\ current_config = NoConfig
    /\ lut = [s \in IrSamples |-> 0]
    /\ rgba_data = <<>>
    /\ acc = <<>>
    /\ chunk = <<>>
    /\ appended = 0
    /\ emitted = 0
    /\ inputs = [PlainInputs EXCEPT !["color"] = {"bgra"}]
    /\ \E last \in ColorKinds :
            payload = [m \in Modalities |->
                          IF m = "color"
                          THEN [i \in 1..ColorFrames |->
                                   IF i < ColorFrames THEN "yuy2" ELSE last]
                          ELSE <<>>]
    /\ ManagerReady(Default)
    /\ NoGen

NextColor == NextCapture

SpecColor == InitColor /\ [][NextColor]_vars

\* ------------------------------------------------------------------------
\* Properties of the frame channel (SpecChannel)
\* ------------------------------------------------------------------------
Range(q) == {q[i] : i \in 1..Len(q)}

FirstN(n) == [i \in 1..n |-> i]

StrictlyIncreasing(q) == \A i \in 1..(Len(q) - 1) : q[i] < q[i + 1]

\* C1: bounded drop.  When the capture loop has pushed N+1 frames into a
\* channel of capacity N and the publish loop has popped none, exactly one
\* frame has been dropped, the (N+1)-th, and the channel holds frames 1..N
\* in insertion order.
C1_BoundedDrop ==
    \A m \in spawned :
        (popped[m] = <<>> /\ produced[m] = Capacity(m) + 1 /\ frame[m] = 0)
            => /\ dropped[m] = <<Capacity(m) + 1>>
               /\ queue[m] = FirstN(Capacity(m))

C1_Witness ==
    \E m \in spawned :
        /\ popped[m] = <<>>
        /\ produced[m] = Capacity(m) + 1
        /\ frame[m] = 0
        /\ Len(dropped[m]) = 1

\* C2: the channel never holds more than its capacity; a capture loop that
\* is about to push is never blocked, whatever the publish thread and the
\* session callbacks are doing; and a push onto a full channel returns to
\* the top of the capture loop having discarded the incoming frame and left
\* the queued frames and their order unchanged.
C2_PushOnFull ==
    /\ [](\A m \in Modalities :
            /\ Len(queue[m]) <= Capacity(m)
            /\ capPc[m] = "push" => ENABLED Push(m))
    /\ [][\A m \in Modalities :
            (capPc[m] = "push" /\ IsFull(queue[m], Capacity(m)) /\ capPc'[m] # "push")
                => /\ queue'[m] = queue[m]
                   /\ capPc'[m] = "gate"
                   /\ dropped'[m] = Append(dropped[m], frame[m])]_vars

C2_Witness ==
    \E m \in spawned :
        /\ dropped[m] # <<>>
        /\ Len(queue[m]) = Capacity(m)
        /\ pubPc[m] = "pushing"
        /\ capPc[m] = "gate"

\* C3: the frames popped by the publish loop are a subsequence of the frames
\* the capture iterator produced: in capture order, without repetition, all
\* of them captured, and a captured frame that is neither popped nor still
\* on its way (held by the capture loop or queued) was dropped on overflow.
C3_FifoSubsequence ==
    \A m \in Modalities :
        /\ StrictlyIncreasing(popped[m] \o queue[m])
        /\ Range(popped[m]) \subseteq 1..produced[m]
        /\ Range(popped[m]) \cap Range(dropped[m]) = {}
        /\ \A id \in 1..produced[m] :
              id \in Range(popped[m]) \cup Range(queue[m]) \cup Range(dropped[m]) \cup {frame[m]}

\* The consumer has received a frame captured after a dropped one.
C3_Witness ==
    \E m \in spawned :
        /\ Len(popped[m]) > Capacity(m)
        /\ \E d \in Range(dropped[m]) : \E p \in Range(popped[m]) : d < p

\* ------------------------------------------------------------------------
\* Properties of the activation gate (SpecGate, SpecGateUnmatched)
\* ------------------------------------------------------------------------
\* C4: with every session end following its own start, the subscriber
\* counter of a mount equals the number of sessions started and not yet
\* ended, and the gate is active exactly when that number is positive; once
\* all started sessions have ended the counter is zero and the gate inactive.
C4_CounterMatchesSessions ==
    \A s \in Streams :
        /\ clientCount[s] = Cardinality(StartedNotEnded(s))
        /\ is_active(s) <=> Cardinality(StartedNotEnded(s)) > 0

\* Two sessions of a mount have started and both have ended.
C4_Witness ==
    \E s \in Streams :
        /\ Cardinality({k \in SessionIds : sess[s][k] = "ended"}) >= 2
        /\ StartedNotEnded(s) = {}
        /\ clientCount[s] = 0
        /\ ~is_active(s)

\* C5: a session end with no matching session start is clamped: the counter
\* never goes below zero (never wraps around), and with no session started
\* and not yet ended it is zero and the gate is inactive.
C5_UnmatchedEndClamped ==
    \A s \in Streams :
        /\ clientCount[s] >= 0
        /\ StartedNotEnded(s) = {} => (UsizeIsZero(clientCount[s]) /\ ~is_active(s))

\* C5 above; the remaining properties are about the capture loops, the
\* publish loops and start-up.

\* C6: a capture loop that sleeps after having found its gate inactive holds
\* neither the device resource nor the frame iterator (checked under
\* SpecChannel).
C6_IdleHoldsNothing ==
    \A m \in Modalities : capPc[m] = "idle" => (~device[m] /\ ~iter[m])

\* C7: whenever a publish thread pushes a frame into an appsrc handle, the
\* subscriber counter of the handle's mount is greater than zero (checked
\* under SpecChannel).
C7_ForwardOnlyWhileSubscribed ==
    [][\A m \in Modalities :
        /\ (pubPc[m] = "send" /\ pubPc'[m] = "pushing")
              => CountPositive(clientCount[MountOf(FirstHandle(m))])
        /\ (pubPc[m] = "send2" /\ pubPc'[m] = "pushing2")
              => CountPositive(clientCount[MountOf(SecondHandle)])]_vars

\* C8: the audio capture loop is gated on the disjunction of the two gates.
\* It is in the acquiring or polling part of an iteration only if that
\* iteration's is_capture_active() saw the color or the infrared counter
\* positive, and it reaches its idle sleep only after seeing both at zero,
\* having released the iterator and the device in that iteration (checked
\* under SpecAudioGate).
C8_AudioGatedOnEither ==
    /\ capPc["audio"] \in {"open", "mkiter", "poll", "push", "warn", "nap"}
          => (obs["audio"]["color"] = "positive" \/ obs["audio"]["infrared"] = "positive")
    /\ capPc["audio"] = "gate2" => obs["audio"]["color"] = "zero"
    /\ capPc["audio"] = "release"
          => /\ obs["audio"]["color"] = "zero"
             /\ obs["audio"]["infrared"] = "zero"
             /\ ~iter["audio"]
    /\ capPc["audio"] = "idle"
          => /\ obs["audio"]["color"] = "zero"
             /\ obs["audio"]["infrared"] = "zero"
             /\ ~iter["audio"]
             /\ ~device["audio"]

\* The microphone is polled on the strength of the infrared gate alone.
C8_Witness ==
    /\ capPc["audio"] = "poll"
    /\ device["audio"] /\ iter["audio"]
    /\ obs["audio"]["color"] = "zero"
    /\ obs["audio"]["infrared"] = "positive"
    /\ ~is_active("color")

CaptureEnabled(m) == ENABLED (CaptureStep(m) \/ GateCheckInfra(m))

\* PubInit only assigns, so its guard is written out.
PublishEnabled(m) ==
    \/ Running(m) /\ pubPc[m] = "init"
    \/ ENABLED (PublishStep(m) \/ Send2(m) \/ Pushed2(m) \/ PushFailed2(m))

\* C9: a capture thread exits only from the creation of its capture object
\* or of its iterator; the step that ends it leaves the process running and
\* every other thread where it was; and while it is gone the capture threads
\* of the other modalities and all three publish threads can take their next
\* step (checked under SpecCapture).
C9_FailureContained ==
    /\ [](\A m \in Modalities :
            capPc[m] = "exited"
               => /\ mainPc = "serving"
                  /\ \A x \in Modalities : PublishEnabled(x)
                  /\ \A x \in Modalities \ {m} : capPc[x] # "exited" => CaptureEnabled(x))
    /\ [][\A m \in Modalities :
            (capPc[m] # "exited" /\ capPc'[m] = "exited")
               => /\ capPc[m] \in {"open", "mkiter"}
                  /\ mainPc' = mainPc
                  /\ pubPc' = pubPc
                  /\ \A x \in Modalities \ {m} :
                        /\ capPc'[x] = capPc[x]
                        /\ device'[x] = device[x]
                        /\ iter'[x] = iter[x]]_vars

\* Color capture has failed to acquire; infrared frames still reach the
\* publish side and the audio loop is polling.
C9_Witness ==
    /\ capPc["color"] = "exited"
    /\ produced["color"] = 0
    /\ popped["infrared"] # <<>>
    /\ capPc["audio"] = "poll"
    /\ mainPc = "serving"

\* C10: the RTSP server is started and pipelines are spawned only after the
\* availability check that follows the wait loop has returned true; when that
\* check returns false main returns an error with no server and no thread
\* (checked under Spec).
C10_AvailabilityFirst ==
    /\ (\/ serverUp
        \/ spawned # {}
        \/ mainPc \in {"rtsp_start", "spawn_color", "spawn_infra", "spawn_audio", "serving"}
        \/ \E m \in Modalities : capPc[m] # "unspawned" \/ pubPc[m] # "unspawned")
          => available = "yes"
    /\ (available = "no" /\ mainPc \notin {"wait", "final"}) => mainPc = "exited"

\* The sensor stayed unavailable through all the rounds of the wait loop and
\* the final check; main has returned the error.
C10_Witness ==
    /\ waitCount = WaitRounds
    /\ available = "no"
    /\ mainPc = "exited"
    /\ ~serverUp
    /\ spawned = {}

\* ------------------------------------------------------------------------
\* Properties of the configuration manager (SpecConfig)
\* ------------------------------------------------------------------------
\* A file whose content does not parse or breaks one of the validation rules.
FailsToLoad(f) ==
    /\ f.exists
    /\ \/ f.content.kind # "json"
       \/ f.content.cfg.infrared_output_value_minimum < 0
       \/ f.content.cfg.infrared_output_value_minimum > ConfigUnit
       \/ f.content.cfg.infrared_output_value_maximum < 0
       \/ f.content.cfg.infrared_output_value_maximum > ConfigUnit
       \/ f.content.cfg.infrared_output_value_minimum >= f.content.cfg.infrared_output_value_maximum
       \/ f.content.cfg.infrared_source_scale <= 0

\* C11: the step of a reload that reads a file failing parsing or
\* validation ends the reload with the configuration get_config() returns,
\* the recorded modification time, and the configuration and table of the
\* infrared publish thread all exactly as before.
C11_RejectedReloadKeepsConfig ==
    [][(monPc = "load" /\ monPc' # "load" /\ FailsToLoad(file))
          => /\ monPc' = "sleep"
             /\ monOutcome' = "rejected"
             /\ config' = config
             /\ last_modified' = last_modified
             /\ current_config' = current_config
             /\ lut' = lut]_vars

\* A reload has just been rejected for a file with output_min >= output_max
\* while the manager and the publish thread hold the defaults.
C11_Witness ==
    /\ monPc = "sleep"
    /\ monOutcome = "rejected"
    /\ file = FileWith(MaxMtime, Json(Config(ConfigUnit \div 2, ConfigUnit \div 2, ConfigUnit)))
    /\ config = Default
    /\ current_config = Default
    /\ lut = generate_lut(Default)

\* C12: whenever a manager has been constructed, its snapshot satisfies
\* 0 <= output_min <= 1, 0 <= output_max <= 1, output_min < output_max and
\* source_scale > 0.
C12_SnapshotValid ==
    mgr = "ready" =>
        /\ 0 <= config.infrared_output_value_minimum
        /\ config.infrared_output_value_minimum <= ConfigUnit
        /\ 0 <= config.infrared_output_value_maximum
        /\ config.infrared_output_value_maximum <= ConfigUnit
        /\ config.infrared_output_value_minimum < config.infrared_output_value_maximum
        /\ config.infrared_source_scale > 0

\* The publish thread adopted the defaults, a reload then replaced them, and
\* the reload after that was rejected.
C12_Witness ==
    /\ mgr = "ready"
    /\ current_config = Default
    /\ config = Config(0, ConfigUnit \div 2, ConfigUnit)
    /\ monOutcome = "rejected"

\* C13: a load that fails parsing or validation never leaves the program
\* without a manager, the first load at construction included.
C13_FailedLoadNeverFatal == mgr # "rejected"

\* ------------------------------------------------------------------------
\* Properties of the audio accumulator (SpecAudio)
\* ------------------------------------------------------------------------
\* The samples numbered from + 1 .. from + n, in order.
Run(from, n) == [i \in 1..n |-> from + i]

\* C14: every chunk the accumulator emits is the next 320 samples in
\* arrival order, what it keeps is the samples after them, chunks and
\* remainder together are exactly the samples appended, and whenever the
\* chunk loop has finished fewer than 320 samples remain and the number of
\* chunks emitted is the number of samples appended divided by 320, rounded
\* down.
C14_ChunksOfFrameSize ==
    /\ chunk # <<>> => chunk = Run(320 * (emitted - 1), 320)
    /\ acc = Run(320 * emitted, Len(acc))
    /\ 320 * emitted + Len(acc) = appended
    /\ pubPc["audio"] \in {"pop", "sleep"} =>
          /\ chunk = <<>>
          /\ Len(acc) < 320
          /\ emitted = appended \div 320

\* 500 samples arrived, then 200: two chunks have been emitted and 60
\* samples remain.
C14_Witness ==
    /\ payload["audio"] = <<2000, 800>>
    /\ popped["audio"] = <<1, 2>>
    /\ pubPc["audio"] = "pop"
    /\ appended = 700
    /\ emitted = 2
    /\ Len(acc) = 60

\* ------------------------------------------------------------------------
\* Properties of the sample conversion (SpecSample)
\* ------------------------------------------------------------------------
\* C15: every converted sample is clamp(sample, -1, 1) * 32767 rounded to
\* the nearest integer, so that 0.5 gives 16383.5 rounded.
C15_RoundsToNearest ==
    s16Out # <<>> => s16Out[1] = S16Rounded(s16In)

\* ------------------------------------------------------------------------
\* Properties of generate_lut (SpecLut)
\* ------------------------------------------------------------------------
\* round(v * 255) for a field 0 <= v <= 1 held in units of 2^-25:
\* the integer part of (2 * 255 * v + 2^25) / 2^26, and 16 / 2^30 = 1 / 2^26.
Round255(v) ==
    WideToInt(WideShift(WideMul(WideOf(16),
                                WideAdd(WideMul(WideOf(2 * 255), WideOf(v)), WideOf(ConfigUnit))), 3))

\* C17 as stated: two calls with configurations equal within the tolerance
\* write the same byte at every entry, and the defaults map sample 0 to 64
\* and sample 65535 to 255.
C17_TolerantConfigsSameTable ==
    lutIdx >= 0 =>
        /\ configs_equal(lutCfg[1], lutCfg[2]) => lutOut[1] = lutOut[2]
        /\ (lutCfg[1] = Default /\ lutIdx = 0) => lutOut[1] = 64
        /\ (lutCfg[1] = Default /\ lutIdx = 65535) => lutOut[1] = 255

\* C17 as amended: two calls with the same configuration write the same
\* byte at every entry, two calls with configurations equal within the
\* tolerance write bytes that differ by at most one, and the defaults map
\* sample 0 to 64 and sample 65535 to 255.
C17_SameConfigSameTable ==
    lutIdx >= 0 =>
        /\ lutCfg[1] = lutCfg[2] => lutOut[1] = lutOut[2]
        /\ configs_equal(lutCfg[1], lutCfg[2]) => Abs(lutOut[1] - lutOut[2]) <= 1
        /\ (lutCfg[1] = Default /\ lutIdx = 0) => lutOut[1] = 64
        /\ (lutCfg[1] = Default /\ lutIdx = 65535) => lutOut[1] = 255

\* Two different configurations that configs_equal calls equal have been
\* run, and their tables differ at the entry written last.
C17_Witness ==
    /\ lutIdx >= 0
    /\ lutCfg[1] # lutCfg[2]
    /\ configs_equal(lutCfg[1], lutCfg[2])
    /\ lutOut[1] # lutOut[2]

\* C18: every entry is at least the entry before it and lies between
\* round(output_min * 255) and round(output_max * 255).
C18_MonotoneWithinRange ==
    lutIdx >= 0 =>
        \A k \in {1, 2} :
            /\ lutPrev[k] <= lutOut[k]
            /\ Round255(lutCfg[k].infrared_output_value_minimum) <= lutOut[k]
            /\ lutOut[k] <= Round255(lutCfg[k].infrared_output_value_maximum)

\* The table for a minimum of 1/8, a maximum of 1/2 and a scale of 1 has
\* been written to its last entry, which sits at round(0.5 * 255).
C18_Witness ==
    /\ lutCfg[1] = Config(ConfigUnit \div 8, ConfigUnit \div 2, ConfigUnit)
    /\ lutIdx = 65535
    /\ lutOut[1] = 128
    /\ lutPrev[1] = 128

\* ------------------------------------------------------------------------
\* Properties of the infrared conversion (SpecRender)
\* ------------------------------------------------------------------------
\* C16: whenever the infrared publish thread hands a buffer to the sender
\* for a frame of n samples, the buffer is exactly 4n bytes and its k-th
\* pixel is [L[s_k], L[s_k], L[s_k], 255] for the table L the thread holds.
C16_PixelsFromLut ==
    pubPc["infrared"] \in {"send", "pushing", "pusherr"} =>
        LET data == payload["infrared"][pubFrame["infrared"]]
        IN  /\ Len(rgba_data) = 4 * Len(data)
            /\ \A k \in 1..Len(data) :
                  /\ rgba_data[4 * k - 3] = lut[data[k]]
                  /\ rgba_data[4 * k - 2] = lut[data[k]]
                  /\ rgba_data[4 * k - 1] = lut[data[k]]
                  /\ rgba_data[4 * k] = 255

\* A frame of two samples was converted with the table of the defaults,
\* the configuration changed, and the frame of one sample after it is being
\* pushed, converted with the new table.
C16_Witness ==
    /\ payload["infrared"] = <<(<<0, 65535>>), (<<4369>>)>>
    /\ popped["infrared"] = <<1, 2>>
    /\ pubPc["infrared"] = "pushing"
    /\ current_config = Dimmer
    /\ rgba_data = <<LutEntry(Dimmer, 4369), LutEntry(Dimmer, 4369), LutEntry(Dimmer, 4369), 255>>
    /\ LutEntry(Dimmer, 4369) # LutEntry(Default, 4369)

\* ------------------------------------------------------------------------
\* Properties of the capture life cycle (SpecChannel, SpecAcquire)
\* ------------------------------------------------------------------------
\* C19: the iteration of a capture loop that finds its gate inactive goes
\* to sleep with both the frame iterator and the device resource released
\* (checked under SpecChannel).
C19_ReleasedBeforeSleep ==
    [][\A m \in Modalities :
        (capPc[m] # "idle" /\ capPc'[m] = "idle") => (~iter'[m] /\ ~device'[m])]_vars

\* The gate of capture loop m as the counters stand.
GateActive(m) == \E s \in GateStreams(m) : is_active(s)

\* Capture loop m holds device and iterator and is in the polling part of
\* its loop.
Polling(m) == capPc[m] \in {"poll", "push", "warn", "nap"} /\ device[m] /\ iter[m]

\* C20: a capture loop that is idle while its gate is active eventually
\* holds device and iterator and polls, unless the gate goes inactive again
\* or an acquisition fails; and a loop creates the device only while it
\* holds none, creates the iterator only while it holds none, and gives
\* either up only in an iteration that found the gate inactive or when an
\* acquisition fails.
C20_AcquireOnce ==
    /\ \A m \in Modalities :
          (capPc[m] = "idle" /\ GateActive(m))
             ~> (Polling(m) \/ ~GateActive(m) \/ capPc[m] = "exited")
    /\ [][\A m \in Modalities :
          /\ (capPc[m] # "open" /\ capPc'[m] = "open") => ~device[m]
          /\ (capPc[m] # "mkiter" /\ capPc'[m] = "mkiter") => ~iter[m]
          /\ (iter[m] /\ ~iter'[m]) => capPc'[m] \in {"release", "idle"}
          /\ (device[m] /\ ~device'[m]) => capPc'[m] \in {"idle", "exited"}]_vars

\* The color loop was idle, a client connected, the loop acquired device and
\* iterator, delivered its frame, came round the loop again with the gate
\* still active and is polling.
C20_Witness ==
    /\ sess["color"][1] = "live"
    /\ is_active("color")
    /\ produced["color"] = FewFrames
    /\ frame["color"] = 0
    /\ capPc["color"] = "poll"
    /\ obs["color"]["color"] = "positive"
    /\ device["color"]
    /\ iter["color"]

\* The gate check of the current iteration of capture loop m returned
\* active.
SawActive(m) == \E s \in GateStreams(m) : obs[m][s] = "positive"

\* C21: a capture loop is at iter.next(), holds a frame to push, or is in
\* the Err or None arm only in an iteration whose gate check returned
\* active; iter.next() returns a frame and try_push is called only in such
\* an iteration; and an iteration whose gate check returned inactive only
\* sleeps and goes back to the gate (checked under SpecAcquire).
C21_NoPollWhileIdle ==
    /\ [](\A m \in Modalities :
            capPc[m] \in {"poll", "push", "warn", "nap"} => SawActive(m))
    /\ [][\A m \in Modalities :
            /\ (\/ produced'[m] # produced[m]
                \/ queue'[m] # queue[m] /\ Len(queue'[m]) > Len(queue[m])
                \/ dropped'[m] # dropped[m]) => SawActive(m)
            /\ capPc[m] \in {"release", "idle"}
                  => /\ capPc'[m] \in {"release", "idle", "gate"}
                     /\ produced'[m] = produced[m]
                     /\ frame'[m] = frame[m]
                     /\ dropped'[m] = dropped[m]
                     /\ Len(queue'[m]) <= Len(queue[m])]_vars

\* The color loop has delivered its frames, found the gate inactive once the
\* client had left, released iterator and device and sleeps.
C21_Witness ==
    /\ capPc["color"] = "idle"
    /\ produced["color"] = FewFrames
    /\ obs["color"]["color"] = "zero"
    /\ sess["color"][1] \in {"unprep_video", "unprep_audio", "ended"}
    /\ ~iter["color"]
    /\ ~device["color"]

\* C22: iter.next() returning Some(Err) never ends the capture thread.
\* The step pushes nothing, counts no frame, leaves channel, device and
\* iterator as they were; the Err arm that follows leaves them too and ends
\* at the gate of the next iteration, and a gate check that returns active
\* while the iterator is held goes straight to iter.next() again (checked
\* under SpecAcquire, where Some(Err) is possible at every poll).
C22_TransientErrorRetried ==
    /\ [](\A m \in Modalities :
            capPc[m] = "warn" => (device[m] /\ iter[m] /\ frame[m] = 0))
    /\ [][\A m \in Modalities :
            /\ (capPc[m] = "poll" /\ capPc'[m] # "poll")
                  => capPc'[m] \in {"push", "warn", "nap"}
            /\ (capPc[m] = "poll" /\ capPc'[m] = "warn")
                  => /\ queue' = queue
                     /\ dropped' = dropped
                     /\ produced' = produced
                     /\ device' = device
                     /\ iter' = iter
            /\ capPc[m] = "warn"
                  => /\ capPc'[m] \in {"warn", "gate"}
                     /\ device'[m] = device[m]
                     /\ iter'[m] = iter[m]
                     /\ produced'[m] = produced[m]
                     /\ dropped'[m] = dropped[m]
                     /\ Len(queue'[m]) <= Len(queue[m])
            /\ (capPc[m] \in {"gate", "gate2"} /\ capPc'[m] \notin {"gate", "gate2", "release", "idle"} /\ iter[m])
                  => (capPc'[m] = "poll" /\ iter'[m] /\ device'[m])]_vars

\* The color loop has pushed a frame that is still in the channel, polled
\* again and got Some(Err): it is in the Err arm with device and iterator.
C22_Witness ==
    /\ capPc["color"] = "warn"
    /\ queue["color"] # <<>>
    /\ produced["color"] = FewFrames
    /\ device["color"]
    /\ iter["color"]
    /\ is_active("color")

\* C23: the drop counter of every channel equals the number of frames
\* try_push has rejected on it so far (checked under SpecChannel).
C23_DropsCounted == \A m \in Modalities : DropCounter(m) = Len(dropped[m])

\* ------------------------------------------------------------------------
\* Properties of the reload and of the table the publish thread holds
\* (SpecConfig, SpecRender, SpecAdopt)
\* ------------------------------------------------------------------------
\* The monitor thread takes the first part of check_and_reload, on a file
\* that exists, in this step.
MonitorPolls ==
    /\ monPc = "sleep"
    /\ file.exists
    /\ (monSeen' # monSeen \/ monOutcome' # monOutcome \/ monPc' # monPc)

\* C24: a monitor poll that finds a modification time different from the
\* recorded one, later or earlier, goes on to load_config; one that finds
\* the recorded time leaves the configuration and the recorded time as they
\* are and does not load (checked under SpecConfig).
C24_ReloadOnAnyChange ==
    [][MonitorPolls =>
          IF file.mtime # last_modified
          THEN monPc' = "load"
          ELSE monPc' = "sleep" /\ config' = config /\ last_modified' = last_modified]_vars

\* The configurations the file holds at some time of the run, each one whole.
WholeConfigs == {x.cfg : x \in {y \in FileContents : y.kind = "json"}}

\* C25: what get_config returns to the infrared publish thread, at its start
\* or at a config check, with the monitor thread reloading at any point in
\* between, is one of the configurations loaded from the file, whole: its
\* three fields never come from two of them (checked under SpecConfig, where
\* any two configurations of the file differ in at least two fields).
C25_ReaderSeesWholeConfig ==
    pubPc["infrared"] \notin {"unspawned", "init"} => current_config \in WholeConfigs

\* At a config check that fell between the two writes of a reload the
\* publish thread got the new configuration.
C25_Witness ==
    /\ monPc = "stamp"
    /\ config = Config(0, ConfigUnit \div 2, ConfigUnit)
    /\ current_config = config
    /\ last_modified < monSeen
    /\ pubPc["infrared"] = "popc"

\* The infrared publish thread is in its loop.
InLoop == pubPc["infrared"] \notin {"unspawned", "init"}

\* C26: in the loop of infrared_frame_publish the table is the one
\* generate_lut gives for the adopted configuration; the adopted
\* configuration and the table change only in a config check that finds the
\* manager's configuration different for configs_equal, which adopts it;
\* no other step of the loop, the pop and the publishing of a frame
\* included, changes either (checked under SpecRender).
C26_LutOfAdoptedConfig ==
    /\ [](InLoop => lut = generate_lut(current_config))
    /\ [][(InLoop /\ (lut' # lut \/ current_config' # current_config))
             => /\ pubPc["infrared"] = "pop"
                /\ pubPc'["infrared"] = "popc"
                /\ ~configs_equal(current_config, config)
                /\ current_config' = config
                /\ UNCHANGED <<queue, popped, rgba_data, pubFrame>>]_vars

\* The thread started with the defaults, adopted the reloaded configuration
\* at a config check, and is sending its second frame with the new table.
C26_Witness ==
    /\ current_config = Dimmer
    /\ lut = generate_lut(Dimmer)
    /\ lut # generate_lut(Default)
    /\ Len(popped["infrared"]) = IrFrames
    /\ pubPc["infrared"] = "send"

\* C27: whenever the manager holds a configuration other than the one the
\* infrared publish thread holds, the thread eventually holds the manager's
\* (checked under SpecAdopt).
C27_AdoptsEveryChange ==
    (mgr = "ready" /\ pubPc["infrared"] # "unspawned" /\ current_config # config)
        ~> (current_config = config)

\* Some field of a and b differs by f32::EPSILON (2^-23) or more.
FarApart(a, b) ==
    \E f \in {"infrared_output_value_minimum", "infrared_output_value_maximum",
               "infrared_source_scale"} :
        a[f] - b[f] >= F32Epsilon \/ b[f] - a[f] >= F32Epsilon

\* C27 for configurations that differ by f32::EPSILON or more in some
\* field: whenever the manager holds one that differs so from the one the
\* thread holds, the thread eventually holds the manager's and the table
\* generated from it, with frames in the channel or without.
C27_AdoptsDistinctConfig ==
    (mgr = "ready" /\ pubPc["infrared"] # "unspawned" /\ FarApart(current_config, config))
        ~> (current_config = config /\ lut = generate_lut(config))

\* The thread converted a frame of one sample with the table of the
\* defaults, the swap came after, and a config check has adopted the new
\* configuration.
C27_Witness ==
    /\ rgba_data = Render(<<>>, generate_lut(Default), <<4369>>)
    /\ config = Dimmer
    /\ current_config = Dimmer
    /\ lut = generate_lut(Dimmer)
    /\ monPc = "sleep"

\* ------------------------------------------------------------------------
\* Properties of the frames the publish threads refuse or lose (SpecAudio,
\* SpecColor, SpecChannel)
\* ------------------------------------------------------------------------
\* C28: when the audio publish thread pops a frame whose byte length is not
\* a multiple of 4, the accumulator, the count of samples appended and the
\* chunks emitted stay as they were, no chunk is handed to the sender, and
\* the thread is back at try_pop (checked under SpecAudio).
C28_OddFrameRejectedWhole ==
    [][(/\ popped'["audio"] # popped["audio"]
        /\ payload["audio"][TryPop(queue["audio"])] % 4 # 0)
          => /\ acc' = acc
             /\ appended' = appended
             /\ emitted' = emitted
             /\ chunk' = chunk
             /\ pubFrame'["audio"] = 0
             /\ pubPc'["audio"] = "pop"]_vars

\* A frame of 200 samples is buffered, and the frame of 6 bytes popped after
\* it has left the 200 where they were.
C28_Witness ==
    /\ Len(popped["audio"]) = 2
    /\ payload["audio"][popped["audio"][1]] = 800
    /\ payload["audio"][popped["audio"][2]] = 6
    /\ Len(acc) = 200
    /\ appended = 200
    /\ emitted = 0
    /\ pubPc["audio"] = "pop"


\* C29: a color frame whose format is not Yuy2 is never handed to the sink:
\* the color publish thread stops at the assertion instead.  The failure
\* stays inside that thread: the step that stops it changes nothing of the
\* main thread or of any other thread, and afterwards the main thread serves
\* and every other thread that has not itself exited can still step.  The
\* color capture loop keeps pushing without waiting, and once the channel is
\* full each further frame is dropped.
C29_FormatMismatchContained ==
    /\ [](/\ pubPc["color"] \in {"send", "pushing", "pusherr"}
             => payload["color"][pubFrame["color"]] = "yuy2"
          /\ \A i \in 1..Len(popped["color"]) :
                payload["color"][popped["color"][i]] \notin {"yuy2", "empty"}
                   => /\ i = Len(popped["color"])
                      /\ pubPc["color"] = "panicked"
          /\ pubPc["color"] = "panicked"
             => /\ mainPc = "serving"
                /\ Len(queue["color"]) <= ColorCapacity
                /\ capPc["color"] # "exited" => CaptureEnabled("color")
                /\ \A x \in spawned \ {"color"} :
                      /\ PublishEnabled(x)
                      /\ capPc[x] # "exited" => CaptureEnabled(x))
    /\ [][/\ (pubPc["color"] # "panicked" /\ pubPc'["color"] = "panicked")
             => /\ mainPc' = mainPc
                /\ capPc' = capPc
                /\ device' = device
                /\ iter' = iter
                /\ holder' = holder
                /\ \A x \in Modalities \ {"color"} : pubPc'[x] = pubPc[x]
          /\ (pubPc["color"] = "panicked" /\ capPc["color"] = "push"
                                           /\ capPc'["color"] # "push")
             => /\ capPc'["color"] = "gate"
                /\ IF Len(queue["color"]) = ColorCapacity
                   THEN /\ queue' = queue
                        /\ dropped'["color"] = Append(dropped["color"], frame["color"])
                   ELSE /\ queue'["color"] = Append(queue["color"], frame["color"])
                        /\ dropped' = dropped]_vars

\* A Yuy2 frame was forwarded, the next frame was Bgra and stopped the color
\* publish thread; the capture loop has since filled the channel and dropped
\* a frame, and the other pipeline's capture loop is polling.
C29_Witness ==
    /\ pubPc["color"] = "panicked"
    /\ Len(popped["color"]) >= 2
    /\ payload["color"][popped["color"][Len(popped["color"]) - 1]] = "yuy2"
    /\ payload["color"][popped["color"][Len(popped["color"])]] = "bgra"
    /\ Len(queue["color"]) = ColorCapacity
    /\ dropped["color"] # <<>>
    /\ \E x \in spawned \ {"color"} : capPc[x] = "poll"


\* C30: submitting a frame is fire-and-forget.  When the sink handle is
\* absent, or when the push into the sink returned an error, the publish
\* thread lets go of the frame and of the handle's mutex, takes nothing back
\* from the channel and moves on to its next statement (for color and
\* infrared the next pop, for audio the second handle and then the next
\* chunk or pop); no publish thread ever returns or stops.
C30_FireAndForget ==
    /\ [](\A m \in Modalities : pubPc[m] \notin {"exited", "panicked"})
    /\ [][\A m \in Modalities :
            /\ (pubPc[m] # pubPc'[m]
                  /\ \/ pubPc[m] = "send" /\ src[FirstHandle(m)] = 0
                     \/ pubPc[m] = "pusherr")
               => /\ pubPc'[m] = AfterFirst(m)
                  /\ holder'[FirstHandle(m)] = "free"
                  /\ m # "audio" => pubFrame'[m] = 0
                  /\ queue' = queue
                  /\ popped' = popped
            /\ (pubPc[m] # pubPc'[m]
                  /\ \/ pubPc[m] = "send2" /\ src[SecondHandle] = 0
                     \/ pubPc[m] = "pusherr2")
               => /\ pubPc'[m] \in {"send", "pop"}
                  /\ holder'[SecondHandle] = "free"
                  /\ queue' = queue
                  /\ popped' = popped]_vars

\* A push into the sink has returned an error for a frame, after an earlier
\* frame was popped, while the next frame waits in the channel.
C30_Witness ==
    \E m \in Modalities :
        /\ pubPc[m] = "pusherr"
        /\ Len(popped[m]) >= 2
        /\ queue[m] # <<>>


\* ------------------------------------------------------------------------
\* Properties of the sink handles under the session callbacks (SpecGate,
\* SpecBlock)
\* ------------------------------------------------------------------------
\* A callback of mount s is part-way through: media_configure after its
\* fetch_add and before its last handle store, or the unprepared closure
\* after its fetch_sub and before its last handle store.
MidCallback(s) ==
    \E k \in SessionIds :
        sess[s][k] \in {"cfg_video", "cfg_audio", "unprep_video", "unprep_audio"}

\* C31: for each mount, whenever its counter is greater than zero and no
\* session callback of the mount is part-way through, the mount's video and
\* audio sink handles are both set.
C31_HandleSetWhileCounted ==
    \A s \in Streams :
        (CountPositive(clientCount[s]) /\ ~MidCallback(s))
           => (src[VideoSrc(s)] # 0 /\ src[AudioSrc(s)] # 0)


C33_ExitIsPermanent ==
    /\ [](\A m \in Modalities :
            (capPc[m] = "exited" /\ mainPc = "serving")
               => (PublishEnabled(m) /\ pubPc[m] \notin {"exited", "panicked"}))
    /\ [][\A m \in Modalities :
            capPc[m] = "exited"
               => /\ capPc'[m] = "exited"
                  /\ produced'[m] = produced[m]
                  /\ frame'[m] = frame[m]
                  /\ dropped'[m] = dropped[m]
                  /\ \/ queue'[m] = queue[m]
                     \/ queue'[m] = Tail(queue[m])
                  /\ ~device'[m]
                  /\ ~iter'[m]]_vars

\* The capture thread exited while the first session was live; that session
\* has ended, the gate went inactive, a second session is live and the gate
\* is active again, and the publish thread sleeps on the empty channel.
C33_Witness ==
    \E m \in Modalities :
        /\ capPc[m] = "exited"
        /\ sess[ChannelMount(m)][1] = "ended"
        /\ sess[ChannelMount(m)][2] = "live"
        /\ CountPositive(clientCount[FirstGate(m)])
        /\ queue[m] = <<>>
        /\ pubPc[m] = "sleep"


\* ------------------------------------------------------------------------
\* Properties of a rejected reload (SpecConfig)
\* ------------------------------------------------------------------------
\* C34: a reload whose load_config fails leaves the configuration and the
\* recorded modification time as they were.  While the last reload stands
\* rejected the recorded time stays behind the time the monitor saw, so the
\* next poll of the file, unless it has been put back to an earlier time,
\* loads again.  The recorded time changes only in the step that follows the
\* swap of a loaded configuration, and takes the time seen by that poll.
C34_RejectedReloadRetried ==
    /\ [](monOutcome = "rejected" /\ monPc \in {"sleep", "load"}
             => monSeen > last_modified)
    /\ [][/\ (monPc = "load" /\ monPc' # "load" /\ ~load_config(file).ok)
             => /\ monPc' = "sleep"
                /\ config' = config
                /\ last_modified' = last_modified
          /\ (MonitorPolls /\ monOutcome = "rejected" /\ file.mtime >= monSeen)
             => monPc' = "load"
          /\ (mgr = "ready" /\ last_modified' # last_modified)
             => /\ monPc = "stamp"
                /\ config = monNew
                /\ config' = config
                /\ last_modified' = monSeen
                /\ monOutcome' = "reloaded"]_vars

\* A reload was rejected, the file has not changed since, and the next poll
\* has gone on to load it again; the configuration is one loaded earlier and
\* the recorded time is behind the time the poll saw.
C34_Witness ==
    /\ monOutcome = "rejected"
    /\ monPc = "load"
    /\ file.exists
    /\ file.mtime = monSeen
    /\ ~load_config(file).ok
    /\ config \in WholeConfigs
    /\ last_modified < monSeen


\* C35: in the color and audio capture loops the iterator is held only while
\* the capture object it was created from is held, at the top of the loop
\* and everywhere else; the iterator is created only on a capture object that
\* is held, and the capture object is given up only in a step in which no
\* iterator is held any more (checked under SpecExit).
C35_IteratorWithinDevice ==
    /\ [](\A m \in {"color", "audio"} : iter[m] => device[m])
    /\ [][\A m \in {"color", "audio"} :
            /\ (~iter[m] /\ iter'[m]) => (device[m] /\ device'[m])
            /\ (device[m] /\ ~device'[m]) => (~iter[m] /\ ~iter'[m])
            /\ (capPc[m] = "release" /\ capPc'[m] # "release")
                  => (~iter[m] /\ ~device'[m] /\ capPc'[m] = "idle")]_vars

\* The color loop held device and iterator and delivered a frame; the gate
\* was then found inactive, the iterator has been dropped and the capture
\* object is about to be taken.
C35_Witness ==
    /\ capPc["color"] = "release"
    /\ device["color"]
    /\ ~iter["color"]
    /\ produced["color"] > 0

====
